---- MODULE Spec2Model ----
(***************************************************************************)
(* Model of the key-registry program (programs/key-registry/src/lib.rs):   *)
(* the username registry and the group, membership, public-code and        *)
(* invite-link instructions.                                               *)
(*                                                                         *)
(* Storage is a set of accounts located by their seeds.  An account is     *)
(* modelled as an entry of a function whose domain is the set of seeds     *)
(* that hold a live account: `init` adds a key (and fails when the key is   *)
(* occupied), `close` removes it.  Every instruction is one atomic         *)
(* transaction: when any step of it fails, no account changes.             *)
(*                                                                         *)
(* The generated account validation of each #[derive(Accounts)] struct     *)
(* runs before the handler, in this order: the accounts that are not       *)
(* `init` are loaded in field order (a missing one fails NotFound), then   *)
(* the `init` accounts are created in field order (an occupied one fails   *)
(* AlreadyExists), then the `constraint =` expressions of the loaded       *)
(* accounts are checked, then the handler body runs.  NotFound stands for  *)
(* the framework's AccountNotInitialized and AlreadyExists for the system  *)
(* program's AccountAlreadyInUse; the other error names are the variants    *)
(* of GroupError.  Timestamps, bumps and the opaque key blobs are left     *)
(* out: no instruction reads them.                                         *)
(*                                                                         *)
(* `members` holds the membership accounts of the identities in Users.     *)
(* `overflow_checks` tells whether the deployed program was built with     *)
(* integer overflow checks; it never changes.                              *)
(* `crowd[g]` is the number of membership accounts of group g that belong  *)
(* to other identities, which joined it earlier and take no step here.     *)
(***************************************************************************)
EXTENDS Integers, Sequences, FiniteSets, TLC

VARIABLES groups, members, lookups, links, users, crowd, overflow_checks, outcome, prev

vars == <<groups, members, lookups, links, users, crowd, overflow_checks, outcome, prev>>

store == <<groups, members, lookups, links>>

(***************************************************************************)
(* Bounds of the model.                                                    *)
(***************************************************************************)
NumUsers == 3

Users == 1..NumUsers

GroupIds == {1, 2}

(***************************************************************************)
(* Program constants.                                                      *)
(***************************************************************************)
U16Max == 65535

PERM_SEND_MESSAGES == 1

PERM_INVITE_MEMBERS == 2

PERM_KICK_MEMBERS == 4

PERM_MANAGE_ROLES == 64

PERM_ALL == 65535

MaxGroupNameLen == 100

MaxGroupDescriptionLen == 500

MinPublicCodeLen == 3

MaxPublicCodeLen == 20

MinInviteCodeLen == 8

MaxInviteCodeLen == 16

MinUsernameLen == 3

MaxUsernameLen == 20

GroupRole == {"Member", "Moderator", "Admin", "Owner"}

(***************************************************************************)
(* Strings are sequences of characters.  A character is a one-character    *)
(* string when it is printable ASCII ("a", "_") and the name of its code   *)
(* point otherwise ("U+00E9", "U+212A"), so that len(), to_lowercase() and *)
(* the character classes are computed as the code computes them: len()     *)
(* counts the bytes of the UTF-8 encoding, to_lowercase() follows the      *)
(* Unicode lowercase mapping, the is_ascii_* classes are ASCII only.       *)
(*                                                                         *)
(* The case tables are those of the standard library                       *)
(* (core::unicode::unicode_data, Unicode 17.0): the lowercase mappings and *)
(* the properties Cased and Case_Ignorable of every code point.            *)
(***************************************************************************)
LowerLetters == <<"a", "b", "c", "d", "e", "f", "g", "h", "i", "j", "k", "l", "m",
                  "n", "o", "p", "q", "r", "s", "t", "u", "v", "w", "x", "y", "z">>

UpperLetters == <<"A", "B", "C", "D", "E", "F", "G", "H", "I", "J", "K", "L", "M",
                  "N", "O", "P", "Q", "R", "S", "T", "U", "V", "W", "X", "Y", "Z">>

Digits == <<"0", "1", "2", "3", "4", "5", "6", "7", "8", "9">>

Range(s) == {s[i] : i \in DOMAIN s}

AsciiLowercase == Range(LowerLetters)

AsciiUppercase == Range(UpperLetters)

AsciiDigits == Range(Digits)

IsAsciiLowercase(c) == c \in AsciiLowercase

IsAsciiUppercase(c) == c \in AsciiUppercase

IsAsciiDigit(c) == c \in AsciiDigits

IsAsciiAlphanumeric(c) == IsAsciiLowercase(c) \/ IsAsciiUppercase(c) \/ IsAsciiDigit(c)

(* The printable ASCII characters, U+0020 to U+007E, in code point order   *)
(* (the grave accent, which a string constant cannot hold, by its name).   *)
PrintableAscii ==
    <<" ", "!", "\"", "#", "$", "%", "&", "'", "(", ")", "*", "+", ",", "-", ".", "/",
      "0", "1", "2", "3", "4", "5", "6", "7", "8", "9", ":", ";", "<", "=", ">", "?",
      "@", "A", "B", "C", "D", "E", "F", "G", "H", "I", "J", "K", "L", "M", "N", "O",
      "P", "Q", "R", "S", "T", "U", "V", "W", "X", "Y", "Z", "[", "\\", "]", "^", "_",
      "U+0060", "a", "b", "c", "d", "e", "f", "g", "h", "i", "j", "k", "l", "m", "n", "o",
      "p", "q", "r", "s", "t", "u", "v", "w", "x", "y", "z", "{", "|", "}", "~">>

HexDigits == <<"0", "1", "2", "3", "4", "5", "6", "7", "8", "9",
               "A", "B", "C", "D", "E", "F">>

HexValue(d) == (CHOOSE i \in DOMAIN HexDigits : HexDigits[i] = d) - 1

RECURSIVE HexNumber(_)
HexNumber(h) ==
    IF Len(h) = 0 THEN 0
    ELSE 16 * HexNumber(SubSeq(h, 1, Len(h) - 1)) + HexValue(SubSeq(h, Len(h), Len(h)))

RECURSIVE HexString(_, _)
HexString(n, width) ==
    IF n = 0 /\ width <= 0 THEN ""
    ELSE HexString(n \div 16, width - 1) \o HexDigits[(n % 16) + 1]

(* The code point of a character, and the character of a code point. *)
CodePoint(c) ==
    IF Len(c) = 1
    THEN 31 + (CHOOSE i \in DOMAIN PrintableAscii : PrintableAscii[i] = c)
    ELSE HexNumber(SubSeq(c, 3, Len(c)))

Char(cp) ==
    IF cp >= 32 /\ cp <= 126 THEN PrintableAscii[cp - 31] ELSE "U+" \o HexString(cp, 4)

(* char::len_utf8: the number of bytes of a character in UTF-8. *)
len_utf8(c) ==
    IF Len(c) = 1 THEN 1
    ELSE LET cp == CodePoint(c)
         IN  IF cp < 128 THEN 1 ELSE IF cp < 2048 THEN 2 ELSE IF cp < 65536 THEN 3 ELSE 4

(* str::len: the number of bytes of a string, the sum of len_utf8 over its  *)
(* characters (one for each character, and one more for each character    *)
(* of at least two, three or four bytes).                                  *)
len(s) ==
    Len(s) + Cardinality({i \in DOMAIN s : len_utf8(s[i]) >= 2})
           + Cardinality({i \in DOMAIN s : len_utf8(s[i]) >= 3})
           + Cardinality({i \in DOMAIN s : len_utf8(s[i]) >= 4})

InRanges(cp, ranges) == \E r \in ranges : r[1] <= cp /\ cp <= r[2]

InRun(cp, r) == r[1] <= cp /\ cp <= r[2] /\ (cp - r[1]) % r[3] = 0

(* unicode_data::conversions::LOWERCASE_TABLE, as runs <<first, last,      *)
(* step, offset>>: the code points first, first + step, ... last lower to  *)
(* themselves plus offset.                                                 *)
LOWERCASE_TABLE ==
    {<<192, 214, 1, 32>>, <<216, 222, 1, 32>>, <<256, 302, 2, 1>>,
     <<306, 310, 2, 1>>, <<313, 327, 2, 1>>, <<330, 374, 2, 1>>,
     <<376, 376, 1, -121>>, <<377, 381, 2, 1>>, <<385, 385, 1, 210>>,
     <<386, 388, 2, 1>>, <<390, 390, 1, 206>>, <<391, 391, 1, 1>>,
     <<393, 394, 1, 205>>, <<395, 395, 1, 1>>, <<398, 398, 1, 79>>,
     <<399, 399, 1, 202>>, <<400, 400, 1, 203>>, <<401, 401, 1, 1>>,
     <<403, 403, 1, 205>>, <<404, 404, 1, 207>>, <<406, 406, 1, 211>>,
     <<407, 407, 1, 209>>, <<408, 408, 1, 1>>, <<412, 412, 1, 211>>,
     <<413, 413, 1, 213>>, <<415, 415, 1, 214>>, <<416, 420, 2, 1>>,
     <<422, 422, 1, 218>>, <<423, 423, 1, 1>>, <<425, 425, 1, 218>>,
     <<428, 428, 1, 1>>, <<430, 430, 1, 218>>, <<431, 431, 1, 1>>,
     <<433, 434, 1, 217>>, <<435, 437, 2, 1>>, <<439, 439, 1, 219>>,
     <<440, 440, 1, 1>>, <<444, 444, 1, 1>>, <<452, 452, 1, 2>>,
     <<453, 453, 1, 1>>, <<455, 455, 1, 2>>, <<456, 456, 1, 1>>,
     <<458, 458, 1, 2>>, <<459, 475, 2, 1>>, <<478, 494, 2, 1>>,
     <<497, 497, 1, 2>>, <<498, 500, 2, 1>>, <<502, 502, 1, -97>>,
     <<503, 503, 1, -56>>, <<504, 542, 2, 1>>, <<544, 544, 1, -130>>,
     <<546, 562, 2, 1>>, <<570, 570, 1, 10795>>, <<571, 571, 1, 1>>,
     <<573, 573, 1, -163>>, <<574, 574, 1, 10792>>, <<577, 577, 1, 1>>,
     <<579, 579, 1, -195>>, <<580, 580, 1, 69>>, <<581, 581, 1, 71>>,
     <<582, 590, 2, 1>>, <<880, 882, 2, 1>>, <<886, 886, 1, 1>>,
     <<895, 895, 1, 116>>, <<902, 902, 1, 38>>, <<904, 906, 1, 37>>,
     <<908, 908, 1, 64>>, <<910, 911, 1, 63>>, <<913, 929, 1, 32>>,
     <<931, 939, 1, 32>>, <<975, 975, 1, 8>>, <<984, 1006, 2, 1>>,
     <<1012, 1012, 1, -60>>, <<1015, 1015, 1, 1>>, <<1017, 1017, 1, -7>>,
     <<1018, 1018, 1, 1>>, <<1021, 1023, 1, -130>>, <<1024, 1039, 1, 80>>,
     <<1040, 1071, 1, 32>>, <<1120, 1152, 2, 1>>, <<1162, 1214, 2, 1>>,
     <<1216, 1216, 1, 15>>, <<1217, 1229, 2, 1>>, <<1232, 1326, 2, 1>>,
     <<1329, 1366, 1, 48>>, <<4256, 4293, 1, 7264>>,
     <<4295, 4295, 1, 7264>>, <<4301, 4301, 1, 7264>>,
     <<5024, 5103, 1, 38864>>, <<5104, 5109, 1, 8>>, <<7305, 7305, 1, 1>>,
     <<7312, 7354, 1, -3008>>, <<7357, 7359, 1, -3008>>,
     <<7680, 7828, 2, 1>>, <<7838, 7838, 1, -7615>>, <<7840, 7934, 2, 1>>,
     <<7944, 7951, 1, -8>>, <<7960, 7965, 1, -8>>, <<7976, 7983, 1, -8>>,
     <<7992, 7999, 1, -8>>, <<8008, 8013, 1, -8>>, <<8025, 8031, 2, -8>>,
     <<8040, 8047, 1, -8>>, <<8072, 8079, 1, -8>>, <<8088, 8095, 1, -8>>,
     <<8104, 8111, 1, -8>>, <<8120, 8121, 1, -8>>, <<8122, 8123, 1, -74>>,
     <<8124, 8124, 1, -9>>, <<8136, 8139, 1, -86>>, <<8140, 8140, 1, -9>>,
     <<8152, 8153, 1, -8>>, <<8154, 8155, 1, -100>>, <<8168, 8169, 1, -8>>,
     <<8170, 8171, 1, -112>>, <<8172, 8172, 1, -7>>,
     <<8184, 8185, 1, -128>>, <<8186, 8187, 1, -126>>,
     <<8188, 8188, 1, -9>>, <<8486, 8486, 1, -7517>>,
     <<8490, 8490, 1, -8383>>, <<8491, 8491, 1, -8262>>,
     <<8498, 8498, 1, 28>>, <<8544, 8559, 1, 16>>, <<8579, 8579, 1, 1>>,
     <<9398, 9423, 1, 26>>, <<11264, 11311, 1, 48>>, <<11360, 11360, 1, 1>>,
     <<11362, 11362, 1, -10743>>, <<11363, 11363, 1, -3814>>,
     <<11364, 11364, 1, -10727>>, <<11367, 11371, 2, 1>>,
     <<11373, 11373, 1, -10780>>, <<11374, 11374, 1, -10749>>,
     <<11375, 11375, 1, -10783>>, <<11376, 11376, 1, -10782>>,
     <<11378, 11378, 1, 1>>, <<11381, 11381, 1, 1>>,
     <<11390, 11391, 1, -10815>>, <<11392, 11490, 2, 1>>,
     <<11499, 11501, 2, 1>>, <<11506, 11506, 1, 1>>, <<42560, 42604, 2, 1>>,
     <<42624, 42650, 2, 1>>, <<42786, 42798, 2, 1>>, <<42802, 42862, 2, 1>>,
     <<42873, 42875, 2, 1>>, <<42877, 42877, 1, -35332>>,
     <<42878, 42886, 2, 1>>, <<42891, 42891, 1, 1>>,
     <<42893, 42893, 1, -42280>>, <<42896, 42898, 2, 1>>,
     <<42902, 42920, 2, 1>>, <<42922, 42922, 1, -42308>>,
     <<42923, 42923, 1, -42319>>, <<42924, 42924, 1, -42315>>,
     <<42925, 42925, 1, -42305>>, <<42926, 42926, 1, -42308>>,
     <<42928, 42928, 1, -42258>>, <<42929, 42929, 1, -42282>>,
     <<42930, 42930, 1, -42261>>, <<42931, 42931, 1, 928>>,
     <<42932, 42946, 2, 1>>, <<42948, 42948, 1, -48>>,
     <<42949, 42949, 1, -42307>>, <<42950, 42950, 1, -35384>>,
     <<42951, 42953, 2, 1>>, <<42955, 42955, 1, -42343>>,
     <<42956, 42970, 2, 1>>, <<42972, 42972, 1, -42561>>,
     <<42997, 42997, 1, 1>>, <<65313, 65338, 1, 32>>,
     <<66560, 66599, 1, 40>>, <<66736, 66771, 1, 40>>,
     <<66928, 66938, 1, 39>>, <<66940, 66954, 1, 39>>,
     <<66956, 66962, 1, 39>>, <<66964, 66965, 1, 39>>,
     <<68736, 68786, 1, 64>>, <<68944, 68965, 1, 32>>,
     <<71840, 71871, 1, 32>>, <<93760, 93791, 1, 32>>,
     <<93856, 93880, 1, 27>>, <<125184, 125217, 1, 34>>}

(* unicode_data::cased: the ranges <<first, last>> of the property Cased. *)
CASED ==
    {<<65, 90>>, <<97, 122>>, <<170, 170>>, <<181, 181>>, <<186, 186>>,
     <<192, 214>>, <<216, 246>>, <<248, 442>>, <<444, 447>>, <<452, 659>>,
     <<662, 696>>, <<704, 705>>, <<736, 740>>, <<837, 837>>, <<880, 883>>,
     <<886, 887>>, <<890, 893>>, <<895, 895>>, <<902, 902>>, <<904, 906>>,
     <<908, 908>>, <<910, 929>>, <<931, 1013>>, <<1015, 1153>>,
     <<1162, 1327>>, <<1329, 1366>>, <<1376, 1416>>, <<4256, 4293>>,
     <<4295, 4295>>, <<4301, 4301>>, <<4304, 4346>>, <<4348, 4351>>,
     <<5024, 5109>>, <<5112, 5117>>, <<7296, 7306>>, <<7312, 7354>>,
     <<7357, 7359>>, <<7424, 7615>>, <<7680, 7957>>, <<7960, 7965>>,
     <<7968, 8005>>, <<8008, 8013>>, <<8016, 8023>>, <<8025, 8025>>,
     <<8027, 8027>>, <<8029, 8029>>, <<8031, 8061>>, <<8064, 8116>>,
     <<8118, 8124>>, <<8126, 8126>>, <<8130, 8132>>, <<8134, 8140>>,
     <<8144, 8147>>, <<8150, 8155>>, <<8160, 8172>>, <<8178, 8180>>,
     <<8182, 8188>>, <<8305, 8305>>, <<8319, 8319>>, <<8336, 8348>>,
     <<8450, 8450>>, <<8455, 8455>>, <<8458, 8467>>, <<8469, 8469>>,
     <<8473, 8477>>, <<8484, 8484>>, <<8486, 8486>>, <<8488, 8488>>,
     <<8490, 8493>>, <<8495, 8500>>, <<8505, 8505>>, <<8508, 8511>>,
     <<8517, 8521>>, <<8526, 8526>>, <<8544, 8575>>, <<8579, 8580>>,
     <<9398, 9449>>, <<11264, 11492>>, <<11499, 11502>>, <<11506, 11507>>,
     <<11520, 11557>>, <<11559, 11559>>, <<11565, 11565>>, <<42560, 42605>>,
     <<42624, 42653>>, <<42786, 42887>>, <<42891, 42894>>, <<42896, 42972>>,
     <<42993, 42998>>, <<43000, 43002>>, <<43824, 43866>>, <<43868, 43881>>,
     <<43888, 43967>>, <<64256, 64262>>, <<64275, 64279>>, <<65313, 65338>>,
     <<65345, 65370>>, <<66560, 66639>>, <<66736, 66771>>, <<66776, 66811>>,
     <<66928, 66938>>, <<66940, 66954>>, <<66956, 66962>>, <<66964, 66965>>,
     <<66967, 66977>>, <<66979, 66993>>, <<66995, 67001>>, <<67003, 67004>>,
     <<67456, 67456>>, <<67459, 67461>>, <<67463, 67504>>, <<67506, 67514>>,
     <<68736, 68786>>, <<68800, 68850>>, <<68944, 68965>>, <<68976, 68997>>,
     <<71840, 71903>>, <<93760, 93823>>, <<93856, 93880>>, <<93883, 93907>>,
     <<119808, 119892>>, <<119894, 119964>>, <<119966, 119967>>,
     <<119970, 119970>>, <<119973, 119974>>, <<119977, 119980>>,
     <<119982, 119993>>, <<119995, 119995>>, <<119997, 120003>>,
     <<120005, 120069>>, <<120071, 120074>>, <<120077, 120084>>,
     <<120086, 120092>>, <<120094, 120121>>, <<120123, 120126>>,
     <<120128, 120132>>, <<120134, 120134>>, <<120138, 120144>>,
     <<120146, 120485>>, <<120488, 120512>>, <<120514, 120538>>,
     <<120540, 120570>>, <<120572, 120596>>, <<120598, 120628>>,
     <<120630, 120654>>, <<120656, 120686>>, <<120688, 120712>>,
     <<120714, 120744>>, <<120746, 120770>>, <<120772, 120779>>,
     <<122624, 122633>>, <<122635, 122654>>, <<122661, 122666>>,
     <<122928, 122989>>, <<125184, 125251>>, <<127280, 127305>>,
     <<127312, 127337>>, <<127344, 127369>>}

(* unicode_data::case_ignorable: the ranges of the property                *)
(* Case_Ignorable.                                                         *)
CASE_IGNORABLE ==
    {<<39, 39>>, <<46, 46>>, <<58, 58>>, <<94, 94>>, <<96, 96>>,
     <<168, 168>>, <<173, 173>>, <<175, 175>>, <<180, 180>>, <<183, 184>>,
     <<688, 879>>, <<884, 885>>, <<890, 890>>, <<900, 901>>, <<903, 903>>,
     <<1155, 1161>>, <<1369, 1369>>, <<1375, 1375>>, <<1425, 1469>>,
     <<1471, 1471>>, <<1473, 1474>>, <<1476, 1477>>, <<1479, 1479>>,
     <<1524, 1524>>, <<1536, 1541>>, <<1552, 1562>>, <<1564, 1564>>,
     <<1600, 1600>>, <<1611, 1631>>, <<1648, 1648>>, <<1750, 1757>>,
     <<1759, 1768>>, <<1770, 1773>>, <<1807, 1807>>, <<1809, 1809>>,
     <<1840, 1866>>, <<1958, 1968>>, <<2027, 2037>>, <<2042, 2042>>,
     <<2045, 2045>>, <<2070, 2093>>, <<2137, 2139>>, <<2184, 2184>>,
     <<2192, 2193>>, <<2199, 2207>>, <<2249, 2306>>, <<2362, 2362>>,
     <<2364, 2364>>, <<2369, 2376>>, <<2381, 2381>>, <<2385, 2391>>,
     <<2402, 2403>>, <<2417, 2417>>, <<2433, 2433>>, <<2492, 2492>>,
     <<2497, 2500>>, <<2509, 2509>>, <<2530, 2531>>, <<2558, 2558>>,
     <<2561, 2562>>, <<2620, 2620>>, <<2625, 2626>>, <<2631, 2632>>,
     <<2635, 2637>>, <<2641, 2641>>, <<2672, 2673>>, <<2677, 2677>>,
     <<2689, 2690>>, <<2748, 2748>>, <<2753, 2757>>, <<2759, 2760>>,
     <<2765, 2765>>, <<2786, 2787>>, <<2810, 2815>>, <<2817, 2817>>,
     <<2876, 2876>>, <<2879, 2879>>, <<2881, 2884>>, <<2893, 2893>>,
     <<2901, 2902>>, <<2914, 2915>>, <<2946, 2946>>, <<3008, 3008>>,
     <<3021, 3021>>, <<3072, 3072>>, <<3076, 3076>>, <<3132, 3132>>,
     <<3134, 3136>>, <<3142, 3144>>, <<3146, 3149>>, <<3157, 3158>>,
     <<3170, 3171>>, <<3201, 3201>>, <<3260, 3260>>, <<3263, 3263>>,
     <<3270, 3270>>, <<3276, 3277>>, <<3298, 3299>>, <<3328, 3329>>,
     <<3387, 3388>>, <<3393, 3396>>, <<3405, 3405>>, <<3426, 3427>>,
     <<3457, 3457>>, <<3530, 3530>>, <<3538, 3540>>, <<3542, 3542>>,
     <<3633, 3633>>, <<3636, 3642>>, <<3654, 3662>>, <<3761, 3761>>,
     <<3764, 3772>>, <<3782, 3782>>, <<3784, 3790>>, <<3864, 3865>>,
     <<3893, 3893>>, <<3895, 3895>>, <<3897, 3897>>, <<3953, 3966>>,
     <<3968, 3972>>, <<3974, 3975>>, <<3981, 3991>>, <<3993, 4028>>,
     <<4038, 4038>>, <<4141, 4144>>, <<4146, 4151>>, <<4153, 4154>>,
     <<4157, 4158>>, <<4184, 4185>>, <<4190, 4192>>, <<4209, 4212>>,
     <<4226, 4226>>, <<4229, 4230>>, <<4237, 4237>>, <<4253, 4253>>,
     <<4348, 4348>>, <<4957, 4959>>, <<5906, 5908>>, <<5938, 5939>>,
     <<5970, 5971>>, <<6002, 6003>>, <<6068, 6069>>, <<6071, 6077>>,
     <<6086, 6086>>, <<6089, 6099>>, <<6103, 6103>>, <<6109, 6109>>,
     <<6155, 6159>>, <<6211, 6211>>, <<6277, 6278>>, <<6313, 6313>>,
     <<6432, 6434>>, <<6439, 6440>>, <<6450, 6450>>, <<6457, 6459>>,
     <<6679, 6680>>, <<6683, 6683>>, <<6742, 6742>>, <<6744, 6750>>,
     <<6752, 6752>>, <<6754, 6754>>, <<6757, 6764>>, <<6771, 6780>>,
     <<6783, 6783>>, <<6823, 6823>>, <<6832, 6877>>, <<6880, 6891>>,
     <<6912, 6915>>, <<6964, 6964>>, <<6966, 6970>>, <<6972, 6972>>,
     <<6978, 6978>>, <<7019, 7027>>, <<7040, 7041>>, <<7074, 7077>>,
     <<7080, 7081>>, <<7083, 7085>>, <<7142, 7142>>, <<7144, 7145>>,
     <<7149, 7149>>, <<7151, 7153>>, <<7212, 7219>>, <<7222, 7223>>,
     <<7288, 7293>>, <<7376, 7378>>, <<7380, 7392>>, <<7394, 7400>>,
     <<7405, 7405>>, <<7412, 7412>>, <<7416, 7417>>, <<7468, 7530>>,
     <<7544, 7544>>, <<7579, 7679>>, <<8125, 8125>>, <<8127, 8129>>,
     <<8141, 8143>>, <<8157, 8159>>, <<8173, 8175>>, <<8189, 8190>>,
     <<8203, 8207>>, <<8216, 8217>>, <<8228, 8228>>, <<8231, 8231>>,
     <<8234, 8238>>, <<8288, 8292>>, <<8294, 8303>>, <<8305, 8305>>,
     <<8319, 8319>>, <<8336, 8348>>, <<8400, 8432>>, <<11388, 11389>>,
     <<11503, 11505>>, <<11631, 11631>>, <<11647, 11647>>, <<11744, 11775>>,
     <<11823, 11823>>, <<12293, 12293>>, <<12330, 12333>>, <<12337, 12341>>,
     <<12347, 12347>>, <<12441, 12446>>, <<12540, 12542>>, <<40981, 40981>>,
     <<42232, 42237>>, <<42508, 42508>>, <<42607, 42610>>, <<42612, 42621>>,
     <<42623, 42623>>, <<42652, 42655>>, <<42736, 42737>>, <<42752, 42785>>,
     <<42864, 42864>>, <<42888, 42890>>, <<42993, 42996>>, <<43000, 43001>>,
     <<43010, 43010>>, <<43014, 43014>>, <<43019, 43019>>, <<43045, 43046>>,
     <<43052, 43052>>, <<43204, 43205>>, <<43232, 43249>>, <<43263, 43263>>,
     <<43302, 43309>>, <<43335, 43345>>, <<43392, 43394>>, <<43443, 43443>>,
     <<43446, 43449>>, <<43452, 43453>>, <<43471, 43471>>, <<43493, 43494>>,
     <<43561, 43566>>, <<43569, 43570>>, <<43573, 43574>>, <<43587, 43587>>,
     <<43596, 43596>>, <<43632, 43632>>, <<43644, 43644>>, <<43696, 43696>>,
     <<43698, 43700>>, <<43703, 43704>>, <<43710, 43711>>, <<43713, 43713>>,
     <<43741, 43741>>, <<43756, 43757>>, <<43763, 43764>>, <<43766, 43766>>,
     <<43867, 43871>>, <<43881, 43883>>, <<44005, 44005>>, <<44008, 44008>>,
     <<44013, 44013>>, <<64286, 64286>>, <<64434, 64450>>, <<65024, 65039>>,
     <<65043, 65043>>, <<65056, 65071>>, <<65106, 65106>>, <<65109, 65109>>,
     <<65279, 65279>>, <<65287, 65287>>, <<65294, 65294>>, <<65306, 65306>>,
     <<65342, 65342>>, <<65344, 65344>>, <<65392, 65392>>, <<65438, 65439>>,
     <<65507, 65507>>, <<65529, 65531>>, <<66045, 66045>>, <<66272, 66272>>,
     <<66422, 66426>>, <<67456, 67461>>, <<67463, 67504>>, <<67506, 67514>>,
     <<68097, 68099>>, <<68101, 68102>>, <<68108, 68111>>, <<68152, 68154>>,
     <<68159, 68159>>, <<68325, 68326>>, <<68900, 68903>>, <<68942, 68942>>,
     <<68969, 68973>>, <<68975, 68975>>, <<69291, 69292>>, <<69317, 69317>>,
     <<69370, 69375>>, <<69446, 69456>>, <<69506, 69509>>, <<69633, 69633>>,
     <<69688, 69702>>, <<69744, 69744>>, <<69747, 69748>>, <<69759, 69761>>,
     <<69811, 69814>>, <<69817, 69818>>, <<69821, 69821>>, <<69826, 69826>>,
     <<69837, 69837>>, <<69888, 69890>>, <<69927, 69931>>, <<69933, 69940>>,
     <<70003, 70003>>, <<70016, 70017>>, <<70070, 70078>>, <<70089, 70092>>,
     <<70095, 70095>>, <<70191, 70193>>, <<70196, 70196>>, <<70198, 70199>>,
     <<70206, 70206>>, <<70209, 70209>>, <<70367, 70367>>, <<70371, 70378>>,
     <<70400, 70401>>, <<70459, 70460>>, <<70464, 70464>>, <<70502, 70508>>,
     <<70512, 70516>>, <<70587, 70592>>, <<70606, 70606>>, <<70608, 70608>>,
     <<70610, 70610>>, <<70625, 70626>>, <<70712, 70719>>, <<70722, 70724>>,
     <<70726, 70726>>, <<70750, 70750>>, <<70835, 70840>>, <<70842, 70842>>,
     <<70847, 70848>>, <<70850, 70851>>, <<71090, 71093>>, <<71100, 71101>>,
     <<71103, 71104>>, <<71132, 71133>>, <<71219, 71226>>, <<71229, 71229>>,
     <<71231, 71232>>, <<71339, 71339>>, <<71341, 71341>>, <<71344, 71349>>,
     <<71351, 71351>>, <<71453, 71453>>, <<71455, 71455>>, <<71458, 71461>>,
     <<71463, 71467>>, <<71727, 71735>>, <<71737, 71738>>, <<71995, 71996>>,
     <<71998, 71998>>, <<72003, 72003>>, <<72148, 72151>>, <<72154, 72155>>,
     <<72160, 72160>>, <<72193, 72202>>, <<72243, 72248>>, <<72251, 72254>>,
     <<72263, 72263>>, <<72273, 72278>>, <<72281, 72283>>, <<72330, 72342>>,
     <<72344, 72345>>, <<72544, 72544>>, <<72546, 72548>>, <<72550, 72550>>,
     <<72752, 72758>>, <<72760, 72765>>, <<72767, 72767>>, <<72850, 72871>>,
     <<72874, 72880>>, <<72882, 72883>>, <<72885, 72886>>, <<73009, 73014>>,
     <<73018, 73018>>, <<73020, 73021>>, <<73023, 73029>>, <<73031, 73031>>,
     <<73104, 73105>>, <<73109, 73109>>, <<73111, 73111>>, <<73177, 73177>>,
     <<73459, 73460>>, <<73472, 73473>>, <<73526, 73530>>, <<73536, 73536>>,
     <<73538, 73538>>, <<73562, 73562>>, <<78896, 78912>>, <<78919, 78933>>,
     <<90398, 90409>>, <<90413, 90415>>, <<92912, 92916>>, <<92976, 92982>>,
     <<92992, 92995>>, <<93504, 93506>>, <<93547, 93548>>, <<94031, 94031>>,
     <<94095, 94111>>, <<94176, 94177>>, <<94179, 94180>>, <<94194, 94195>>,
     <<110576, 110579>>, <<110581, 110587>>, <<110589, 110590>>,
     <<113821, 113822>>, <<113824, 113827>>, <<118528, 118573>>,
     <<118576, 118598>>, <<119143, 119145>>, <<119155, 119170>>,
     <<119173, 119179>>, <<119210, 119213>>, <<119362, 119364>>,
     <<121344, 121398>>, <<121403, 121452>>, <<121461, 121461>>,
     <<121476, 121476>>, <<121499, 121503>>, <<121505, 121519>>,
     <<122880, 122886>>, <<122888, 122904>>, <<122907, 122913>>,
     <<122915, 122916>>, <<122918, 122922>>, <<122928, 122989>>,
     <<123023, 123023>>, <<123184, 123197>>, <<123566, 123566>>,
     <<123628, 123631>>, <<124139, 124143>>, <<124398, 124399>>,
     <<124643, 124643>>, <<124646, 124646>>, <<124654, 124655>>,
     <<124661, 124661>>, <<124671, 124671>>, <<125136, 125142>>,
     <<125252, 125259>>, <<127995, 127999>>, <<917505, 917505>>,
     <<917536, 917631>>, <<917760, 917999>>}

(* The Unicode property Cased. *)
Cased(c) == InRanges(CodePoint(c), CASED)

(* The Unicode property Case_Ignorable. *)
Case_Ignorable(c) == InRanges(CodePoint(c), CASE_IGNORABLE)

(* unicode::conversions::to_lower on a code point: the code points of its  *)
(* lowercase mapping.  An ASCII code point is lowered by                   *)
(* to_ascii_lowercase; U+0130, the one entry of LOWERCASE_TABLE_MULTI,     *)
(* lowers to the two code points of i and U+0307; any other code point is  *)
(* looked up in LOWERCASE_TABLE and is its own lowercase when it is not    *)
(* there.                                                                  *)
to_lower(cp) ==
    IF cp < 128 THEN (IF cp >= 65 /\ cp <= 90 THEN <<cp + 32>> ELSE <<cp>>)
    ELSE IF cp = 304 THEN <<105, 775>>
    ELSE LET found == {r \in LOWERCASE_TABLE : InRun(cp, r)}
         IN  IF found = {} THEN <<cp>> ELSE <<cp + (CHOOSE r \in found : TRUE)[4]>>

(* The lowercase mapping of one character, as a string. *)
LowerChar(c) ==
    IF IsAsciiUppercase(c)
    THEN <<LowerLetters[CHOOSE i \in DOMAIN UpperLetters : UpperLetters[i] = c]>>
    ELSE IF Len(c) = 1 THEN <<c>>
    ELSE LET low == to_lower(CodePoint(c)) IN [i \in DOMAIN low |-> Char(low[i])]

Reverse(s) == [i \in 1..Len(s) |-> s[Len(s) + 1 - i]]

(* The first character that is not Case_Ignorable exists and is Cased. *)
case_ignorable_then_cased(s) ==
    \E j \in DOMAIN s :
        /\ \A k \in 1..(j - 1) : Case_Ignorable(s[k])
        /\ ~Case_Ignorable(s[j])
        /\ Cased(s[j])

CapitalSigma == "U+03A3"

(* Capital sigma lowers to the final sigma U+03C2 at the end of a word and *)
(* to U+03C3 elsewhere.                                                    *)
map_uppercase_sigma(s, i) ==
    IF /\ case_ignorable_then_cased(Reverse(SubSeq(s, 1, i - 1)))
       /\ ~case_ignorable_then_cased(SubSeq(s, i + 1, Len(s)))
    THEN <<"U+03C2">>
    ELSE <<"U+03C3">>

(* The characters that the character at position i of s lowers to. *)
LowerAt(s, i) ==
    IF s[i] = CapitalSigma THEN map_uppercase_sigma(s, i) ELSE LowerChar(s[i])

(* str::to_lowercase: the concatenation of LowerAt over the positions of   *)
(* s; `before(i)` is the length of what the positions before i lower to.   *)
(* A string of ASCII characters without a capital letter is its own        *)
(* lowercase.                                                              *)
ToLowercase(s) ==
    LET low == [i \in DOMAIN s |-> LowerAt(s, i)]
    IN  IF \A i \in DOMAIN s : Len(s[i]) = 1 /\ ~IsAsciiUppercase(s[i])
        THEN s
        ELSE IF \A i \in DOMAIN s : Len(low[i]) = 1
        THEN [i \in DOMAIN s |-> low[i][1]]
        ELSE LET wide == {i \in DOMAIN s : Len(low[i]) = 2}
                 before(i) == (i - 1) + Cardinality({j \in wide : j < i})
             IN  [k \in 1..(Len(s) + Cardinality(wide)) |->
                    LET i == CHOOSE i \in DOMAIN s :
                                before(i) < k /\ k <= before(i) + Len(low[i])
                    IN  low[i][k - before(i)]]

Repeat(c, n) == [i \in 1..n |-> c]

EmptyString == <<>>

(***************************************************************************)
(* Program-derived addresses.  The address of an account is derived from   *)
(* its seeds, and a seed of more than MAX_SEED_LEN bytes has no address:   *)
(* the derivation of an `init` account fails in the account validation,    *)
(* and the transaction aborts with none of the program's error codes.      *)
(***************************************************************************)
MAX_SEED_LEN == 32

ValidSeed(seed) == len(seed) <= MAX_SEED_LEN

(***************************************************************************)
(* Account maps.                                                           *)
(***************************************************************************)
NoAccounts == [k \in {} |-> 0]

Exists(accounts, key) == key \in DOMAIN accounts

Put(accounts, key, data) ==
    [k \in (DOMAIN accounts) \cup {key} |-> IF k = key THEN data ELSE accounts[k]]

Close(accounts, key) == [k \in (DOMAIN accounts) \ {key} |-> accounts[k]]

(***************************************************************************)
(* The result of the last transaction, and the accounts as they were       *)
(* before it.                                                              *)
(***************************************************************************)
NoCall == [op |-> "none", err |-> "none", caller |-> 0, group_id |-> 0,
           target |-> 0, role |-> "none", code |-> EmptyString]

Call(op, err, caller, g, target, role, code) ==
    [op |-> op, err |-> err, caller |-> caller, group_id |-> g,
     target |-> target, role |-> role, code |-> code]

Snapshot ==
    [groups |-> groups, members |-> members, lookups |-> lookups, links |-> links,
     users |-> users]

(* The rent of one membership account moving in a transaction, as the      *)
(* change of each user's balance: `from` pays it into a new account, `to`  *)
(* receives it from a closed one; 0 stands for the account itself.         *)
RentTransfer(from, to) ==
    [u \in Users |-> (IF u = to THEN 1 ELSE 0) - (IF u = from THEN 1 ELSE 0)]

(* The outcome of an instruction that creates or closes a membership also  *)
(* carries the rent it moved; a failed one moves none.                     *)
WithLamports(call, moved) ==
    [op |-> call.op, err |-> call.err, caller |-> call.caller, group_id |-> call.group_id,
     target |-> call.target, role |-> call.role, code |-> call.code,
     lamports |-> IF call.err = "Ok" THEN moved ELSE RentTransfer(0, 0)]

(* A transaction: commits `g2, m2, l2, k2` when err is Ok, nothing otherwise. *)
Commit(call, g2, m2, l2, k2) ==
    /\ outcome' = call
    /\ prev' = Snapshot
    /\ IF call.err = "Ok"
       THEN /\ groups' = g2
            /\ members' = m2
            /\ lookups' = l2
            /\ links' = k2
       ELSE UNCHANGED store
    /\ UNCHANGED <<users, crowd, overflow_checks>>

(* A transaction of the username registry: commits `u2` when err is Ok. *)
CommitUser(call, u2) ==
    /\ outcome' = call
    /\ prev' = Snapshot
    /\ users' = IF call.err = "Ok" THEN u2 ELSE users
    /\ UNCHANGED <<store, crowd, overflow_checks>>

(* No transaction is awaiting its reader. *)
Idle == outcome.op = "none"

(* The client reads the result of its transaction; the next one follows. *)
Acknowledge ==
    /\ outcome.op # "none"
    /\ outcome' = NoCall
    /\ prev' = Snapshot
    /\ UNCHANGED <<store, users, crowd, overflow_checks>>

Init ==
    /\ overflow_checks \in BOOLEAN
    /\ crowd = [g \in GroupIds |-> 0]
    /\ users = NoAccounts
    /\ groups = NoAccounts
    /\ members = NoAccounts
    /\ lookups = NoAccounts
    /\ links = NoAccounts
    /\ outcome = NoCall
    /\ prev = [groups |-> NoAccounts, members |-> NoAccounts,
               lookups |-> NoAccounts, links |-> NoAccounts, users |-> NoAccounts]

(***************************************************************************)
(* register_username, transfer_username, update_encryption_key,            *)
(* close_account.  A user account lives at the seed of its lowercased      *)
(* username.  transfer_username and update_encryption_key take the account *)
(* itself (no seeds): `account` is the key of the account that is passed.  *)
(***************************************************************************)
EncryptionKeys == {1, 2}

ValidUsernameLength(username) ==
    len(username) >= MinUsernameLen /\ len(username) <= MaxUsernameLen

ValidUsernameCharacters(username) ==
    \A i \in DOMAIN username : IsAsciiAlphanumeric(username[i]) \/ username[i] = "_"

RegisterUsernameErr_ExactSeed(owner, username) ==
    IF ~ValidSeed(username) THEN "MaxSeedLengthExceeded"
    ELSE IF Exists(users, username) THEN "AlreadyExists"
    ELSE IF ~ValidUsernameLength(username) THEN "InvalidUsernameLength"
    ELSE IF ~ValidUsernameCharacters(username) THEN "InvalidUsernameCharacters"
    ELSE "Ok"

RegisterUsernameErr(owner, username) ==
    IF ~ValidSeed(ToLowercase(username)) THEN "MaxSeedLengthExceeded"
    ELSE IF Exists(users, ToLowercase(username)) THEN "AlreadyExists"
    ELSE IF ~ValidUsernameLength(username) THEN "InvalidUsernameLength"
    ELSE IF ~ValidUsernameCharacters(username) THEN "InvalidUsernameCharacters"
    ELSE "Ok"

NewUser(owner, username, encryption_key) ==
    [owner |-> owner, username |-> ToLowercase(username), encryption_key |-> encryption_key]

RegisterUsername(owner, username, encryption_key) ==
    /\ Idle
    /\ CommitUser(Call("RegisterUsername", RegisterUsernameErr(owner, username), owner, 0,
                       encryption_key, "none", username),
                  Put(users, ToLowercase(username), NewUser(owner, username, encryption_key)))

IsUserOwner_Anyone(account, caller) == TRUE

IsUserOwner(account, caller) == users[account].owner = caller

TransferUsernameErr(current_owner, account) ==
    IF ~Exists(users, account) THEN "NotFound"
    ELSE IF ~IsUserOwner(account, current_owner) THEN "NotOwner"
    ELSE "Ok"

TransferUsername(current_owner, account, new_owner) ==
    /\ Idle
    /\ CommitUser(Call("TransferUsername", TransferUsernameErr(current_owner, account),
                       current_owner, 0, new_owner, "none", account),
                  IF Exists(users, account)
                  THEN [users EXCEPT ![account].owner = new_owner] ELSE users)

UpdateEncryptionKeyErr(owner, account) ==
    IF ~Exists(users, account) THEN "NotFound"
    ELSE IF ~IsUserOwner(account, owner) THEN "NotOwner"
    ELSE "Ok"

UpdateEncryptionKey(owner, account, new_encryption_key) ==
    /\ Idle
    /\ CommitUser(Call("UpdateEncryptionKey", UpdateEncryptionKeyErr(owner, account), owner, 0,
                       new_encryption_key, "none", account),
                  IF Exists(users, account)
                  THEN [users EXCEPT ![account].encryption_key = new_encryption_key]
                  ELSE users)

CloseAccountErr(owner, username) ==
    IF ~Exists(users, ToLowercase(username)) THEN "NotFound"
    ELSE IF ~IsUserOwner(ToLowercase(username), owner) THEN "NotOwner"
    ELSE "Ok"

CloseAccount(owner, username) ==
    /\ Idle
    /\ CommitUser(Call("CloseAccount", CloseAccountErr(owner, username), owner, 0, 0, "none",
                       username),
                  Close(users, ToLowercase(username)))

(***************************************************************************)
(* create_group                                                            *)
(***************************************************************************)
NameGeneral == <<"g", "e", "n">>

NameTeam == <<"t", "e", "a", "m">>

CreateGroupErr_ValidateFirst(caller, g, a) ==
    IF ~(Len(a.name) # 0 /\ len(a.name) <= MaxGroupNameLen) THEN "InvalidGroupNameLength"
    ELSE IF ~(len(a.description) <= MaxGroupDescriptionLen) THEN "InvalidGroupDescriptionLength"
    ELSE IF Exists(groups, g) THEN "AlreadyExists"
    ELSE IF Exists(members, <<g, caller>>) THEN "AlreadyExists"
    ELSE "Ok"

CreateGroupErr(caller, g, a) ==
    IF Exists(groups, g) THEN "AlreadyExists"
    ELSE IF Exists(members, <<g, caller>>) THEN "AlreadyExists"
    ELSE IF ~(Len(a.name) # 0 /\ len(a.name) <= MaxGroupNameLen) THEN "InvalidGroupNameLength"
    ELSE IF ~(len(a.description) <= MaxGroupDescriptionLen) THEN "InvalidGroupDescriptionLength"
    ELSE "Ok"

NewGroup_CountZero(caller, a) ==
    [owner |-> caller,
     public_code |-> EmptyString,
     name |-> a.name,
     description |-> a.description,
     is_public |-> a.is_public,
     invite_only |-> a.invite_only,
     max_members |-> a.max_members,
     allow_member_invites |-> a.allow_member_invites,
     require_approval |-> FALSE,
     member_count |-> 0]

NewGroup(caller, a) ==
    [owner |-> caller,
     public_code |-> EmptyString,
     name |-> a.name,
     description |-> a.description,
     is_public |-> a.is_public,
     invite_only |-> a.invite_only,
     max_members |-> a.max_members,
     allow_member_invites |-> a.allow_member_invites,
     require_approval |-> FALSE,
     member_count |-> 1]

OwnerMember(caller) ==
    [role |-> "Owner", permissions |-> PERM_ALL, invited_by |-> caller]

(* The outcome of create_group also carries the arguments of the call. *)
CreateGroupCall(err, caller, g, a) ==
    [op |-> "CreateGroup", err |-> err, caller |-> caller, group_id |-> g,
     target |-> 0, role |-> "none", code |-> a.name, args |-> a]

CreateGroup(caller, g, a) ==
    /\ Idle
    /\ Commit(CreateGroupCall(CreateGroupErr(caller, g, a), caller, g, a),
              Put(groups, g, NewGroup(caller, a)),
              Put(members, <<g, caller>>, OwnerMember(caller)),
              lookups, links)

(***************************************************************************)
(* join_group                                                              *)
(***************************************************************************)
(* member_count is a u16.  What `member_count += 1` does at 65535 depends  *)
(* on the build, whose profile is not part of the program's source: with   *)
(* overflow checks the instruction panics and nothing is committed         *)
(* (ArithmeticOverflow), without them the addition wraps and 0 is stored.  *)
(* `overflow_checks` is the setting of the deployed build.                 *)
HasSpace_OffByOne(group) ==
    group.max_members = 0 \/ group.member_count <= group.max_members

HasSpace(group) == group.max_members = 0 \/ group.member_count < group.max_members

JoinGroupErr_InitIfNeeded(caller, g) ==
    IF ~Exists(groups, g) THEN "NotFound"
    ELSE IF ~HasSpace(groups[g]) THEN "GroupFull"
    ELSE IF overflow_checks /\ groups[g].member_count + 1 > U16Max THEN "ArithmeticOverflow"
    ELSE "Ok"

JoinGroupErr(caller, g) ==
    IF ~Exists(groups, g) THEN "NotFound"
    ELSE IF Exists(members, <<g, caller>>) THEN "AlreadyExists"
    ELSE IF ~HasSpace(groups[g]) THEN "GroupFull"
    ELSE IF overflow_checks /\ groups[g].member_count + 1 > U16Max THEN "ArithmeticOverflow"
    ELSE "Ok"

NewMember_WithInvite(inviter) ==
    [role |-> "Member", permissions |-> PERM_SEND_MESSAGES + PERM_INVITE_MEMBERS,
     invited_by |-> inviter]

NewMember(inviter) ==
    [role |-> "Member", permissions |-> PERM_SEND_MESSAGES, invited_by |-> inviter]

Incremented(group) == [group EXCEPT !.member_count = (@ + 1) % (U16Max + 1)]

(* payer = new_member *)
JoinPayer(new_member) == new_member

JoinGroup(caller, g) ==
    /\ Idle
    /\ Commit(WithLamports(Call("JoinGroup", JoinGroupErr(caller, g), caller, g, caller,
                                "none", EmptyString),
                           RentTransfer(JoinPayer(caller), 0)),
              IF Exists(groups, g) THEN [groups EXCEPT ![g] = Incremented(@)] ELSE groups,
              Put(members, <<g, caller>>, NewMember(caller)),
              lookups, links)

(***************************************************************************)
(* leave_group                                                             *)
(***************************************************************************)
SaturatingSub(n, k) == IF n >= k THEN n - k ELSE 0

Decremented(group) == [group EXCEPT !.member_count = SaturatingSub(@, 1)]

LeaveGroupErr(caller, g) ==
    IF ~Exists(groups, g) THEN "NotFound"
    ELSE IF ~Exists(members, <<g, caller>>) THEN "NotFound"
    ELSE IF ~(members[<<g, caller>>].role # "Owner") THEN "OwnerCannotLeave"
    ELSE "Ok"

(* close = member *)
LeaveRentRecipient(member) == member

LeaveGroup(caller, g) ==
    /\ Idle
    /\ Commit(WithLamports(Call("LeaveGroup", LeaveGroupErr(caller, g), caller, g, caller,
                                "none", EmptyString),
                           RentTransfer(0, LeaveRentRecipient(caller))),
              IF Exists(groups, g) THEN [groups EXCEPT ![g] = Decremented(@)] ELSE groups,
              Close(members, <<g, caller>>),
              lookups, links)

(***************************************************************************)
(* invite_member                                                           *)
(***************************************************************************)
HasPermission(permissions, bit) == (permissions \div bit) % 2 = 1

CanInvite(group, inviter_member) ==
    \/ inviter_member.role = "Owner"
    \/ inviter_member.role = "Admin"
    \/ inviter_member.role = "Moderator"
    \/ (group.allow_member_invites
        /\ HasPermission(inviter_member.permissions, PERM_INVITE_MEMBERS))

InviteMemberErr_NoCapacityCheck(inviter, g, invited) ==
    IF ~Exists(groups, g) THEN "NotFound"
    ELSE IF ~Exists(members, <<g, inviter>>) THEN "NotFound"
    ELSE IF Exists(members, <<g, invited>>) THEN "AlreadyExists"
    ELSE IF ~CanInvite(groups[g], members[<<g, inviter>>]) THEN "InsufficientPermissions"
    ELSE IF overflow_checks /\ groups[g].member_count + 1 > U16Max THEN "ArithmeticOverflow"
    ELSE "Ok"

InviteMemberErr(inviter, g, invited) ==
    IF ~Exists(groups, g) THEN "NotFound"
    ELSE IF ~Exists(members, <<g, inviter>>) THEN "NotFound"
    ELSE IF Exists(members, <<g, invited>>) THEN "AlreadyExists"
    ELSE IF ~CanInvite(groups[g], members[<<g, inviter>>]) THEN "InsufficientPermissions"
    ELSE IF ~HasSpace(groups[g]) THEN "GroupFull"
    ELSE IF overflow_checks /\ groups[g].member_count + 1 > U16Max THEN "ArithmeticOverflow"
    ELSE "Ok"

(* payer = inviter *)
InvitePayer(inviter, invited_user) == inviter

InviteMember(inviter, g, invited) ==
    /\ Idle
    /\ Commit(WithLamports(Call("InviteMember", InviteMemberErr(inviter, g, invited), inviter,
                                g, invited, "none", EmptyString),
                           RentTransfer(InvitePayer(inviter, invited), 0)),
              IF Exists(groups, g) THEN [groups EXCEPT ![g] = Incremented(@)] ELSE groups,
              Put(members, <<g, invited>>, NewMember(inviter)),
              lookups, links)

(***************************************************************************)
(* kick_member                                                             *)
(***************************************************************************)
role_to_rank(role) ==
    CASE role = "Member" -> 0
      [] role = "Moderator" -> 1
      [] role = "Admin" -> 2
      [] role = "Owner" -> 3

CanKick(kicker_member) ==
    \/ kicker_member.role = "Owner"
    \/ kicker_member.role = "Admin"
    \/ kicker_member.role = "Moderator"

Outranks_OrEqual(kicker_member, kicked_member) ==
    kicker_member.role # "Owner"
        => role_to_rank(kicker_member.role) >= role_to_rank(kicked_member.role)

Outranks(kicker_member, kicked_member) ==
    kicker_member.role # "Owner"
        => role_to_rank(kicker_member.role) > role_to_rank(kicked_member.role)

KickMemberErr_NoRankCheck(kicker, g, kicked) ==
    IF ~Exists(groups, g) THEN "NotFound"
    ELSE IF ~Exists(members, <<g, kicker>>) THEN "NotFound"
    ELSE IF ~Exists(members, <<g, kicked>>) THEN "NotFound"
    ELSE IF ~CanKick(members[<<g, kicker>>]) THEN "InsufficientPermissions"
    ELSE IF ~(members[<<g, kicked>>].role # "Owner") THEN "CannotKickOwner"
    ELSE "Ok"

KickMemberErr(kicker, g, kicked) ==
    IF ~Exists(groups, g) THEN "NotFound"
    ELSE IF ~Exists(members, <<g, kicker>>) THEN "NotFound"
    ELSE IF ~Exists(members, <<g, kicked>>) THEN "NotFound"
    ELSE IF ~CanKick(members[<<g, kicker>>]) THEN "InsufficientPermissions"
    ELSE IF ~(members[<<g, kicked>>].role # "Owner") THEN "CannotKickOwner"
    ELSE IF ~Outranks(members[<<g, kicker>>], members[<<g, kicked>>])
         THEN "InsufficientPermissions"
    ELSE "Ok"

KickRentRecipient_Kicked(kicker, kicked_user) == kicked_user

(* close = kicker *)
KickRentRecipient(kicker, kicked_user) == kicker

KickMember(kicker, g, kicked) ==
    /\ Idle
    /\ Commit(WithLamports(Call("KickMember", KickMemberErr(kicker, g, kicked), kicker, g,
                                kicked, "none", EmptyString),
                           RentTransfer(0, KickRentRecipient(kicker, kicked))),
              IF Exists(groups, g) THEN [groups EXCEPT ![g] = Decremented(@)] ELSE groups,
              Close(members, <<g, kicked>>),
              lookups, links)

(***************************************************************************)
(* update_member_role                                                      *)
(***************************************************************************)
RolePermissions(new_role) ==
    CASE new_role = "Owner" -> PERM_ALL
      [] new_role = "Admin" ->
            PERM_SEND_MESSAGES + PERM_INVITE_MEMBERS + PERM_KICK_MEMBERS + PERM_MANAGE_ROLES
      [] new_role = "Moderator" ->
            PERM_SEND_MESSAGES + PERM_INVITE_MEMBERS + PERM_KICK_MEMBERS
      [] new_role = "Member" -> PERM_SEND_MESSAGES

CanUpdateRoles(updater_member) ==
    updater_member.role = "Owner" \/ updater_member.role = "Admin"

CanGrant_Anyone(updater_member, new_role) == TRUE

CanGrant(updater_member, new_role) ==
    new_role = "Admin" => updater_member.role = "Owner"

UpdateMemberRoleErr(updater, g, target, new_role) ==
    IF ~Exists(groups, g) THEN "NotFound"
    ELSE IF ~Exists(members, <<g, updater>>) THEN "NotFound"
    ELSE IF ~Exists(members, <<g, target>>) THEN "NotFound"
    ELSE IF ~CanUpdateRoles(members[<<g, updater>>]) THEN "InsufficientPermissions"
    ELSE IF ~(members[<<g, target>>].role # "Owner") THEN "CannotChangeOwnerRole"
    ELSE IF ~CanGrant(members[<<g, updater>>], new_role) THEN "InsufficientPermissions"
    ELSE "Ok"

WithRole_StaleMask(member, new_role) == [member EXCEPT !.role = new_role]

WithRole(member, new_role) ==
    [member EXCEPT !.role = new_role, !.permissions = RolePermissions(new_role)]

UpdateMemberRole(updater, g, target, new_role) ==
    /\ Idle
    /\ Commit(Call("UpdateMemberRole", UpdateMemberRoleErr(updater, g, target, new_role),
                   updater, g, target, new_role, EmptyString),
              groups,
              IF Exists(members, <<g, target>>)
              THEN [members EXCEPT ![<<g, target>>] = WithRole(@, new_role)]
              ELSE members,
              lookups, links)

(***************************************************************************)
(* set_group_code                                                          *)
(***************************************************************************)
ValidPublicCodeLength(public_code) ==
    len(public_code) >= MinPublicCodeLen /\ len(public_code) <= MaxPublicCodeLen

ValidPublicCodeCharacters(public_code) ==
    \A i \in DOMAIN public_code :
        IsAsciiLowercase(public_code[i]) \/ IsAsciiDigit(public_code[i]) \/ public_code[i] = "-"

IsGroupOwner_ByRole(caller, g) ==
    Exists(members, <<g, caller>>) /\ members[<<g, caller>>].role = "Owner"

IsGroupOwner(caller, g) == groups[g].owner = caller

SetGroupCodeErr_InitIfNeeded(caller, g, public_code) ==
    IF ~Exists(groups, g) THEN "NotFound"
    ELSE IF ~ValidSeed(ToLowercase(public_code)) THEN "MaxSeedLengthExceeded"
    ELSE IF ~IsGroupOwner(caller, g) THEN "NotGroupOwner"
    ELSE IF ~ValidPublicCodeLength(public_code) THEN "InvalidPublicCodeLength"
    ELSE IF ~ValidPublicCodeCharacters(public_code) THEN "InvalidPublicCodeCharacters"
    ELSE "Ok"

SetGroupCodeErr(caller, g, public_code) ==
    IF ~Exists(groups, g) THEN "NotFound"
    ELSE IF ~ValidSeed(ToLowercase(public_code)) THEN "MaxSeedLengthExceeded"
    ELSE IF Exists(lookups, ToLowercase(public_code)) THEN "AlreadyExists"
    ELSE IF ~IsGroupOwner(caller, g) THEN "NotGroupOwner"
    ELSE IF ~ValidPublicCodeLength(public_code) THEN "InvalidPublicCodeLength"
    ELSE IF ~ValidPublicCodeCharacters(public_code) THEN "InvalidPublicCodeCharacters"
    ELSE "Ok"

NewLookup(g, public_code) == [public_code |-> ToLowercase(public_code), group_id |-> g]

WithPublicCode_Unset(group, public_code) == group

WithPublicCode(group, public_code) == [group EXCEPT !.public_code = public_code]

SetGroupCode(caller, g, public_code) ==
    /\ Idle
    /\ Commit(Call("SetGroupCode", SetGroupCodeErr(caller, g, public_code), caller, g, 0,
                   "none", public_code),
              IF Exists(groups, g)
              THEN [groups EXCEPT ![g] = WithPublicCode(@, public_code)] ELSE groups,
              members,
              Put(lookups, ToLowercase(public_code), NewLookup(g, public_code)),
              links)

(***************************************************************************)
(* lookup_group_by_code                                                    *)
(***************************************************************************)
CodeSeed_Exact(public_code) == public_code

(* The seed of the lookup account: the queried code, lowercased. *)
CodeSeed(public_code) == ToLowercase(public_code)

ResolvedGroup(public_code) == lookups[CodeSeed(public_code)].group_id

LookupGroupByCodeErr(public_code) ==
    IF ~Exists(lookups, CodeSeed(public_code)) THEN "NotFound"
    ELSE IF ~Exists(groups, ResolvedGroup(public_code)) THEN "NotFound"
    ELSE "Ok"

(* Read-only: the outcome carries the group the accounts resolved to. *)
LookupGroupByCode(caller, public_code) ==
    /\ Idle
    /\ Commit(Call("LookupGroupByCode", LookupGroupByCodeErr(public_code), caller,
                   IF LookupGroupByCodeErr(public_code) = "Ok"
                   THEN ResolvedGroup(public_code) ELSE 0,
                   0, "none", public_code),
              groups, members, lookups, links)

(***************************************************************************)
(* create_invite_link                                                      *)
(***************************************************************************)
CanCreateInvite_FlagAlone(group, creator_member) ==
    \/ creator_member.role = "Owner"
    \/ creator_member.role = "Admin"
    \/ creator_member.role = "Moderator"
    \/ group.allow_member_invites

CanCreateInvite(group, creator_member) ==
    \/ creator_member.role = "Owner"
    \/ creator_member.role = "Admin"
    \/ creator_member.role = "Moderator"
    \/ (group.allow_member_invites
        /\ HasPermission(creator_member.permissions, PERM_INVITE_MEMBERS))

ValidInviteCodeLength(invite_code) ==
    len(invite_code) >= MinInviteCodeLen /\ len(invite_code) <= MaxInviteCodeLen

ValidInviteCodeCharacters(invite_code) ==
    \A i \in DOMAIN invite_code : IsAsciiAlphanumeric(invite_code[i])

CreateInviteLinkErr_ValidateFirst(creator, g, invite_code) ==
    IF ~Exists(groups, g) THEN "NotFound"
    ELSE IF ~Exists(members, <<g, creator>>) THEN "NotFound"
    ELSE IF ~ValidSeed(invite_code) THEN "MaxSeedLengthExceeded"
    ELSE IF Exists(links, <<g, invite_code>>) THEN "AlreadyExists"
    ELSE IF ~ValidInviteCodeLength(invite_code) THEN "InvalidInviteCodeLength"
    ELSE IF ~ValidInviteCodeCharacters(invite_code) THEN "InvalidInviteCodeCharacters"
    ELSE IF ~CanCreateInvite(groups[g], members[<<g, creator>>]) THEN "InsufficientPermissions"
    ELSE "Ok"

CreateInviteLinkErr(creator, g, invite_code) ==
    IF ~Exists(groups, g) THEN "NotFound"
    ELSE IF ~Exists(members, <<g, creator>>) THEN "NotFound"
    ELSE IF ~ValidSeed(invite_code) THEN "MaxSeedLengthExceeded"
    ELSE IF Exists(links, <<g, invite_code>>) THEN "AlreadyExists"
    ELSE IF ~CanCreateInvite(groups[g], members[<<g, creator>>]) THEN "InsufficientPermissions"
    ELSE IF ~ValidInviteCodeLength(invite_code) THEN "InvalidInviteCodeLength"
    ELSE IF ~ValidInviteCodeCharacters(invite_code) THEN "InvalidInviteCodeCharacters"
    ELSE "Ok"

NewInviteLink(creator, expires_at, max_uses) ==
    [created_by |-> creator, expires_at |-> expires_at, max_uses |-> max_uses,
     use_count |-> 0, is_active |-> TRUE]

CreateInviteLink(creator, g, invite_code, expires_at, max_uses) ==
    /\ Idle
    /\ Commit(Call("CreateInviteLink", CreateInviteLinkErr(creator, g, invite_code), creator, g,
                   0, "none", invite_code),
              groups, members, lookups,
              Put(links, <<g, invite_code>>, NewInviteLink(creator, expires_at, max_uses)))

(***************************************************************************)
(* revoke_invite_link                                                      *)
(***************************************************************************)
CanRevoke_RoleOnly(invite_link, revoker, revoker_member) ==
    \/ revoker_member.role = "Owner"
    \/ revoker_member.role = "Admin"
    \/ revoker_member.role = "Moderator"

CanRevoke(invite_link, revoker, revoker_member) ==
    \/ invite_link.created_by = revoker
    \/ revoker_member.role = "Owner"
    \/ revoker_member.role = "Admin"
    \/ revoker_member.role = "Moderator"

RevokeInviteLinkErr(revoker, g, invite_code) ==
    IF ~Exists(groups, g) THEN "NotFound"
    ELSE IF ~Exists(members, <<g, revoker>>) THEN "NotFound"
    ELSE IF ~Exists(links, <<g, invite_code>>) THEN "NotFound"
    ELSE IF ~CanRevoke(links[<<g, invite_code>>], revoker, members[<<g, revoker>>])
         THEN "InsufficientPermissions"
    ELSE "Ok"

Revoked_Toggled(invite_link) == [invite_link EXCEPT !.is_active = ~@]

Revoked(invite_link) == [invite_link EXCEPT !.is_active = FALSE]

RevokeInviteLink(revoker, g, invite_code) ==
    /\ Idle
    /\ Commit(Call("RevokeInviteLink", RevokeInviteLinkErr(revoker, g, invite_code), revoker, g,
                   0, "none", invite_code),
              groups, members, lookups,
              IF Exists(links, <<g, invite_code>>)
              THEN [links EXCEPT ![<<g, invite_code>>] = Revoked(@)] ELSE links)

(***************************************************************************)
(* Specifications.                                                         *)
(***************************************************************************)
LongName == Repeat("x", MaxGroupNameLen + 1)

LongDescription == Repeat("x", MaxGroupDescriptionLen + 1)

GroupArgs(caller, g, name, description, is_public, invite_only, max_members, allow) ==
    [caller |-> caller, group_id |-> g, name |-> name, description |-> description,
     is_public |-> is_public, invite_only |-> invite_only, max_members |-> max_members,
     allow_member_invites |-> allow]

(* The create_group calls that are tried: group 1 unlimited or capped at 2, *)
(* group 2 capped at its owner alone; and three calls with invalid fields.  *)
SampleGroups ==
    {GroupArgs(1, 1, NameGeneral, EmptyString, TRUE, FALSE, 0, TRUE),
     GroupArgs(2, 1, NameTeam, NameTeam, FALSE, TRUE, 2, FALSE),
     GroupArgs(3, 2, NameGeneral, NameTeam, TRUE, TRUE, 1, FALSE),
     GroupArgs(3, 1, EmptyString, EmptyString, TRUE, FALSE, 0, TRUE),
     GroupArgs(1, 2, LongName, EmptyString, TRUE, FALSE, 0, TRUE),
     GroupArgs(1, 2, NameTeam, LongDescription, TRUE, FALSE, 0, TRUE)}

Next ==
    \/ \E c \in SampleGroups : CreateGroup(c.caller, c.group_id, c)
    \/ \E u \in Users, g \in GroupIds : JoinGroup(u, g)
    \/ \E u \in Users, g \in GroupIds : LeaveGroup(u, g)
    \/ \E u \in Users, g \in GroupIds, t \in Users : InviteMember(u, g, t)
    \/ \E u \in Users, g \in GroupIds, t \in Users : KickMember(u, g, t)
    \/ \E u \in Users, g \in GroupIds, t \in Users, r \in GroupRole :
            UpdateMemberRole(u, g, t, r)
    \/ Acknowledge

Spec == Init /\ [][Next]_vars

(***************************************************************************)
(* The invitation instructions, on one group.                              *)
(***************************************************************************)
InviteSampleGroups ==
    {GroupArgs(1, 1, NameGeneral, EmptyString, TRUE, FALSE, 3, TRUE),
     GroupArgs(2, 1, NameTeam, NameTeam, FALSE, TRUE, 3, FALSE)}

InviteCodeA == <<"i", "n", "v", "i", "t", "e", "0", "1">>

InviteCodeShort == <<"a", "b", "c">>

InviteCodeBadChar == <<"i", "n", "v", "i", "t", "e", "-", "1">>

InviteCodeOverSeed == Repeat("i", MAX_SEED_LEN + 1)

SampleInviteCodes == {InviteCodeA, InviteCodeShort, InviteCodeBadChar, InviteCodeOverSeed}

SampleLinkLimits == {[expires_at |-> 0, max_uses |-> 0], [expires_at |-> 100, max_uses |-> 5]}

NextInvite ==
    \/ \E c \in InviteSampleGroups : CreateGroup(c.caller, c.group_id, c)
    \/ \E u \in Users, g \in GroupIds, t \in Users : InviteMember(u, g, t)
    \/ \E u \in Users, g \in GroupIds, t \in Users, r \in GroupRole :
            UpdateMemberRole(u, g, t, r)
    \/ \E u \in Users, g \in GroupIds, c \in SampleInviteCodes, l \in SampleLinkLimits :
            CreateInviteLink(u, g, c, l.expires_at, l.max_uses)
    \/ \E u \in Users, g \in GroupIds, c \in SampleInviteCodes : RevokeInviteLink(u, g, c)
    \/ \E u \in Users, g \in GroupIds : LeaveGroup(u, g)
    \/ Acknowledge

SpecInvite == Init /\ [][NextInvite]_vars

(***************************************************************************)
(* The public-code instructions, on two groups.                            *)
(***************************************************************************)
CodeSampleGroups ==
    {GroupArgs(1, 1, NameGeneral, EmptyString, TRUE, FALSE, 2, TRUE),
     GroupArgs(2, 2, NameTeam, NameTeam, FALSE, TRUE, 1, FALSE)}

CodeAbc == <<"a", "b", "c">>

CodeAbcUpper == <<"A", "B", "C">>

CodeX9 == <<"x", "-", "9">>

CodeShort == <<"a", "b">>

CodeLong == Repeat("z", MaxPublicCodeLen + 1)

CodeAbk == <<"a", "b", "k">>

(* "ab" and the Kelvin sign, which lowers to "k". *)
CodeAbKelvin == <<"a", "b", "U+212A">>

(* Two characters, three bytes. *)
CodeAccent == <<"U+00E9", "-">>

(* 33 bytes: longer than a seed may be. *)
CodeOverSeed == Repeat("z", MAX_SEED_LEN + 1)

(* 11 capital dotted I, 22 bytes; lowered, 11 times i and U+0307, 33 bytes. *)
CodeDottedI == Repeat("U+0130", 11)

(* 11 capital sharp s, 33 bytes; lowered, 11 times U+00DF, 22 bytes. *)
CodeSharpS == Repeat("U+1E9E", 11)

SamplePublicCodes ==
    {CodeAbc, CodeAbcUpper, CodeX9, CodeShort, CodeLong, CodeAbk, CodeAbKelvin, CodeAccent,
     CodeOverSeed, CodeDottedI, CodeSharpS}

NextCodes ==
    \/ \E c \in CodeSampleGroups : CreateGroup(c.caller, c.group_id, c)
    \/ \E u \in Users, g \in GroupIds : JoinGroup(u, g)
    \/ \E u \in Users, g \in GroupIds, t \in Users, r \in GroupRole :
            UpdateMemberRole(u, g, t, r)
    \/ \E u \in Users, g \in GroupIds, c \in SamplePublicCodes : SetGroupCode(u, g, c)
    \/ \E u \in Users, c \in SamplePublicCodes : LookupGroupByCode(u, c)
    \/ Acknowledge

SpecCodes == Init /\ [][NextCodes]_vars

(***************************************************************************)
(* All the instructions together, on small inputs: group 1 capped at 2     *)
(* members, group 2 (which either of two callers may create) capped at its *)
(* owner alone, one valid public code and one valid invite code.           *)
(***************************************************************************)
(* 51 characters, 102 bytes. *)
NameAccents == Repeat("U+00E9", 51)

AllSampleGroups ==
    {GroupArgs(1, 1, NameGeneral, EmptyString, TRUE, FALSE, 2, TRUE),
     GroupArgs(2, 2, NameTeam, NameTeam, FALSE, TRUE, 1, FALSE),
     GroupArgs(3, 2, NameGeneral, EmptyString, TRUE, FALSE, 1, TRUE),
     GroupArgs(3, 1, EmptyString, EmptyString, TRUE, FALSE, 0, TRUE),
     GroupArgs(1, 2, LongName, EmptyString, TRUE, FALSE, 0, TRUE),
     GroupArgs(1, 2, NameTeam, LongDescription, TRUE, FALSE, 0, TRUE),
     GroupArgs(1, 2, NameAccents, EmptyString, TRUE, FALSE, 0, TRUE)}

AllPublicCodes == {CodeAbc, CodeAbcUpper, CodeShort, CodeAccent, CodeOverSeed}

AllInviteCodes == {InviteCodeA, InviteCodeShort, InviteCodeBadChar, InviteCodeOverSeed}

NextAll ==
    \/ \E c \in AllSampleGroups : CreateGroup(c.caller, c.group_id, c)
    \/ \E u \in Users, g \in GroupIds, c \in AllPublicCodes : SetGroupCode(u, g, c)
    \/ \E u \in Users, g \in GroupIds : JoinGroup(u, g)
    \/ \E u \in Users, g \in GroupIds, t \in Users : InviteMember(u, g, t)
    \/ \E u \in Users, g \in GroupIds : LeaveGroup(u, g)
    \/ \E u \in Users, g \in GroupIds, t \in Users : KickMember(u, g, t)
    \/ \E u \in Users, g \in GroupIds, t \in Users, r \in GroupRole :
            UpdateMemberRole(u, g, t, r)
    \/ \E u \in Users, g \in GroupIds, c \in AllInviteCodes :
            CreateInviteLink(u, g, c, 0, 0)
    \/ \E u \in Users, g \in GroupIds, c \in AllInviteCodes : RevokeInviteLink(u, g, c)
    \/ Acknowledge

SpecAll == Init /\ [][NextAll]_vars

(***************************************************************************)
(* The username registry: three usernames, one of them also written with  *)
(* capitals and one with a letterlike sign that lowers to its first        *)
(* letter, and two names that fail validation.                             *)
(***************************************************************************)
NameAlice == <<"a", "l", "i", "c", "e">>

NameAliceCaps == <<"A", "l", "i", "c", "E">>

NameBob == <<"b", "o", "b", "_", "1">>

NameTooShort == <<"a", "l">>

NameBadChar == <<"a", "l", "-", "i">>

NameKim == <<"k", "i", "m">>

(* The Kelvin sign, which lowers to "k", and "im". *)
NameKelvinIm == <<"U+212A", "i", "m">>

(* 33 bytes: longer than a seed may be. *)
NameOverSeed == Repeat("n", MAX_SEED_LEN + 1)

SampleUsernames ==
    {NameAlice, NameAliceCaps, NameBob, NameTooShort, NameBadChar, NameKim, NameKelvinIm,
     NameOverSeed}

NextNames ==
    \/ \E u \in Users, n \in SampleUsernames, k \in EncryptionKeys : RegisterUsername(u, n, k)
    \/ \E u \in Users, n \in SampleUsernames, v \in Users : TransferUsername(u, n, v)
    \/ \E u \in Users, n \in SampleUsernames, k \in EncryptionKeys :
            UpdateEncryptionKey(u, n, k)
    \/ \E u \in Users, n \in SampleUsernames : CloseAccount(u, n)
    \/ Acknowledge

SpecNames == Init /\ [][NextNames]_vars

(***************************************************************************)
(* An unlimited group near the top of its u16 member_count: group 1 was    *)
(* created by user 1 with max_members = 0 and all but the last one or two  *)
(* values of the counter are taken by its owner and the identities that    *)
(* joined it before.                                                       *)
(***************************************************************************)
CrowdSizes == {U16Max - 3, U16Max - 2}

CrowdedGroup(n) ==
    [NewGroup(1, GroupArgs(1, 1, NameGeneral, EmptyString, TRUE, FALSE, 0, TRUE))
        EXCEPT !.member_count = 1 + n]

InitCount ==
    /\ overflow_checks \in BOOLEAN
    /\ \E n \in CrowdSizes :
            /\ crowd = [g \in GroupIds |-> IF g = 1 THEN n ELSE 0]
            /\ groups = Put(NoAccounts, 1, CrowdedGroup(n))
    /\ members = Put(NoAccounts, <<1, 1>>, OwnerMember(1))
    /\ lookups = NoAccounts
    /\ links = NoAccounts
    /\ users = NoAccounts
    /\ outcome = NoCall
    /\ prev = [groups |-> groups, members |-> members,
               lookups |-> NoAccounts, links |-> NoAccounts, users |-> NoAccounts]

NextCount ==
    \/ \E u \in Users, g \in GroupIds : JoinGroup(u, g)
    \/ \E u \in Users, g \in GroupIds : LeaveGroup(u, g)
    \/ \E u \in Users, g \in GroupIds, t \in Users : InviteMember(u, g, t)
    \/ Acknowledge

SpecCount == InitCount /\ [][NextCount]_vars

(***************************************************************************)
(* The claims.  `outcome` is the transaction that ran last, `prev` the     *)
(* accounts before it.                                                     *)
(***************************************************************************)
Ran(op) == outcome.op = op

Succeeded(op) == outcome.op = op /\ outcome.err = "Ok"

Rejected(op) == outcome.op = op /\ outcome.err # "Ok"

Untouched ==
    /\ groups = prev.groups
    /\ members = prev.members
    /\ lookups = prev.lookups
    /\ links = prev.links
    /\ users = prev.users

LiveMembers(m, g) == {u \in Users : <<g, u>> \in DOMAIN m}

OwnerRoleMembers(m, g) == {u \in LiveMembers(m, g) : m[<<g, u>>].role = "Owner"}

WasMember(u) == <<outcome.group_id, u>> \in DOMAIN prev.members

PrevMember(u) == prev.members[<<outcome.group_id, u>>]

WasGroup == outcome.group_id \in DOMAIN prev.groups

PrevGroup == prev.groups[outcome.group_id]

OthersUntouched(key) ==
    /\ (DOMAIN members) \ {key} = (DOMAIN prev.members) \ {key}
    /\ \A k \in (DOMAIN members) \ {key} : members[k] = prev.members[k]

(* C1: in every reachable state, every group's member_count equals the    *)
(* number of live membership records of that group, those of the           *)
(* identities that take no step included.                                  *)
C1_MemberCountMatchesRoster ==
    \A g \in DOMAIN groups :
        groups[g].member_count = Cardinality(LiveMembers(members, g)) + crowd[g]

(* C2: in every reachable state every existing group has exactly one live  *)
(* membership whose role is Owner.                                         *)
C2_ExactlyOneOwnerMembership ==
    \A g \in DOMAIN groups : Cardinality(OwnerRoleMembers(members, g)) = 1

(* C3, as claimed: a Join or Invite on a group whose max_members is not 0  *)
(* and whose member_count has reached it fails with GroupFull.             *)
WasFull == WasGroup /\ PrevGroup.max_members # 0
                    /\ PrevGroup.member_count >= PrevGroup.max_members

C3_FullGroupFailsGroupFull ==
    ((Ran("JoinGroup") \/ Ran("InviteMember")) /\ WasFull) => outcome.err = "GroupFull"

(* C3, amended: a Join or Invite on a full group fails and admits nobody;  *)
(* the error is GroupFull when the call reaches the capacity check (the    *)
(* new member's key is unoccupied and, for Invite, the inviter is a member *)
(* allowed to invite), AlreadyExists or NotFound or                        *)
(* InsufficientPermissions otherwise; and member_count <= max_members in   *)
(* every reachable state of a group with max_members # 0.                  *)
ReachesCapacityCheck ==
    /\ ~WasMember(outcome.target)
    /\ Ran("InviteMember") =>
          /\ WasMember(outcome.caller)
          /\ \/ PrevMember(outcome.caller).role \in {"Owner", "Admin", "Moderator"}
             \/ /\ PrevGroup.allow_member_invites
                /\ (PrevMember(outcome.caller).permissions \div 2) % 2 = 1

C3_FullGroupAdmitsNobody ==
    /\ \A g \in DOMAIN groups :
          groups[g].max_members # 0 => groups[g].member_count <= groups[g].max_members
    /\ ((Ran("JoinGroup") \/ Ran("InviteMember")) /\ WasFull) =>
          /\ outcome.err # "Ok"
          /\ Untouched
          /\ ReachesCapacityCheck => outcome.err = "GroupFull"
          /\ ~ReachesCapacityCheck =>
                outcome.err \in {"AlreadyExists", "NotFound", "InsufficientPermissions"}

C3_Witness ==
    /\ Ran("JoinGroup")
    /\ outcome.err = "GroupFull"
    /\ PrevGroup.max_members = 2
    /\ PrevGroup.member_count = 2
    /\ LiveMembers(members, outcome.group_id) = LiveMembers(prev.members, outcome.group_id)

(* C4: Kick succeeds only if the kicker holds a live membership with role  *)
(* Owner, Admin or Moderator, the target's role is not Owner and a kicker  *)
(* that is not Owner strictly outranks the target under Member(0) <        *)
(* Moderator(1) < Admin(2) < Owner(3); in every other case Kick fails and  *)
(* the target's membership and member_count are unchanged.                 *)
ClaimedRank(role) ==
    IF role = "Member" THEN 0
    ELSE IF role = "Moderator" THEN 1
    ELSE IF role = "Admin" THEN 2
    ELSE 3

KickAllowed ==
    /\ WasGroup
    /\ WasMember(outcome.caller)
    /\ WasMember(outcome.target)
    /\ PrevMember(outcome.caller).role \in {"Owner", "Admin", "Moderator"}
    /\ PrevMember(outcome.target).role # "Owner"
    /\ PrevMember(outcome.caller).role # "Owner" =>
          ClaimedRank(PrevMember(outcome.caller).role)
              > ClaimedRank(PrevMember(outcome.target).role)

C4_KickAuthority ==
    Ran("KickMember") =>
        /\ outcome.err = "Ok" => KickAllowed
        /\ ~KickAllowed =>
              /\ outcome.err # "Ok"
              /\ members = prev.members
              /\ groups = prev.groups

C4_Witness ==
    /\ Rejected("KickMember")
    /\ WasMember(outcome.caller)
    /\ WasMember(outcome.target)
    /\ outcome.caller # outcome.target
    /\ PrevMember(outcome.caller).role = "Admin"
    /\ PrevMember(outcome.target).role = "Admin"
    /\ members = prev.members

(* C5: UpdateRole succeeds only if the updater's role is Owner or Admin; a *)
(* call with new_role = Admin succeeds only if the updater's role is       *)
(* Owner; a call whose target has role Owner never succeeds; on such a     *)
(* rejection the target's role and permissions are unchanged.              *)
UpdateAllowed ==
    /\ WasGroup
    /\ WasMember(outcome.caller)
    /\ WasMember(outcome.target)
    /\ PrevMember(outcome.caller).role \in {"Owner", "Admin"}
    /\ outcome.role = "Admin" => PrevMember(outcome.caller).role = "Owner"
    /\ PrevMember(outcome.target).role # "Owner"

C5_RoleChangeAuthority ==
    Ran("UpdateMemberRole") =>
        /\ outcome.err = "Ok" => UpdateAllowed
        /\ ~UpdateAllowed =>
              /\ outcome.err # "Ok"
              /\ members = prev.members

C5_Witness ==
    /\ Rejected("UpdateMemberRole")
    /\ WasMember(outcome.caller)
    /\ WasMember(outcome.target)
    /\ PrevMember(outcome.caller).role = "Admin"
    /\ PrevMember(outcome.target).role = "Member"
    /\ outcome.role = "Admin"
    /\ members[<<outcome.group_id, outcome.target>>].role = "Member"

(* C6: after a successful UpdateRole(target, R) the target membership has  *)
(* role R and the fixed mask of R (Member 1, Moderator 7, Admin 71, Owner  *)
(* 65535) whatever its permissions were, and the group's member_count and  *)
(* every other membership are unchanged.                                   *)
FixedMask(role) ==
    IF role = "Member" THEN 1
    ELSE IF role = "Moderator" THEN 1 + 2 + 4
    ELSE IF role = "Admin" THEN 1 + 2 + 4 + 64
    ELSE 65535

C6_UpdateRoleRoundTrip ==
    Succeeded("UpdateMemberRole") =>
        LET key == <<outcome.group_id, outcome.target>> IN
        /\ key \in DOMAIN members
        /\ members[key].role = outcome.role
        /\ members[key].permissions = FixedMask(outcome.role)
        /\ groups = prev.groups
        /\ OthersUntouched(key)

C6_Witness ==
    /\ Succeeded("UpdateMemberRole")
    /\ PrevMember(outcome.target).role = "Admin"
    /\ outcome.role = "Moderator"
    /\ members[<<outcome.group_id, outcome.target>>].permissions = 7
    /\ PrevMember(outcome.target).permissions = 71

(* C7: CreateGroup with a group identifier that already holds a group      *)
(* fails with AlreadyExists for any caller and any arguments and leaves    *)
(* the group record and all memberships untouched.                         *)
C7_CreateOnUsedIdFails ==
    (Ran("CreateGroup") /\ WasGroup) => (outcome.err = "AlreadyExists" /\ Untouched)

C7_Witness ==
    /\ Ran("CreateGroup")
    /\ WasGroup
    /\ outcome.err = "AlreadyExists"
    /\ outcome.caller # PrevGroup.owner
    /\ Len(outcome.code) > MaxGroupNameLen
    /\ groups[outcome.group_id] = PrevGroup

(* C9: Leave by a caller whose role is Owner is rejected with              *)
(* OwnerCannotLeave, membership and member_count unchanged; Leave by any   *)
(* other live member destroys exactly that caller's membership and         *)
(* decrements member_count by one in the same step, every other            *)
(* membership unchanged.                                                   *)
C9_LeaveRule ==
    (Ran("LeaveGroup") /\ WasGroup /\ WasMember(outcome.caller)) =>
        LET key == <<outcome.group_id, outcome.caller>> IN
        IF PrevMember(outcome.caller).role = "Owner"
        THEN outcome.err = "OwnerCannotLeave" /\ Untouched
        ELSE /\ outcome.err = "Ok"
             /\ key \notin DOMAIN members
             /\ OthersUntouched(key)
             /\ groups[outcome.group_id].member_count = PrevGroup.member_count - 1
             /\ \A g \in (DOMAIN groups) \ {outcome.group_id} : groups[g] = prev.groups[g]

(* C8, as claimed: Invite and CreateInviteLink succeed only for a caller   *)
(* holding a live membership with role Owner, Admin or Moderator, or role  *)
(* Member with the INVITE bit while allow_member_invites is true; any      *)
(* other caller is rejected with InsufficientPermissions and nothing is    *)
(* created.                                                                *)
RanInvitation == Ran("InviteMember") \/ Ran("CreateInviteLink")

MayInvite ==
    /\ WasMember(outcome.caller)
    /\ \/ PrevMember(outcome.caller).role \in {"Owner", "Admin", "Moderator"}
       \/ /\ PrevMember(outcome.caller).role = "Member"
          /\ (PrevMember(outcome.caller).permissions \div 2) % 2 = 1
          /\ PrevGroup.allow_member_invites

C8_OthersGetInsufficientPermissions ==
    (RanInvitation /\ WasGroup) =>
        /\ outcome.err = "Ok" => MayInvite
        /\ ~MayInvite => (outcome.err = "InsufficientPermissions" /\ Untouched)

(* C8, amended: Invite and CreateInviteLink succeed only for such a        *)
(* caller; any other caller is rejected and no membership or link is       *)
(* created: with NotFound when the caller holds no live membership in the  *)
(* group; when the caller is a member, with the abort of the address       *)
(* derivation when the invite code is longer than a seed may be and with   *)
(* AlreadyExists when the membership or link to create already exists;     *)
(* and with InsufficientPermissions otherwise.                             *)
InviteCodeOverSeedLength == Ran("CreateInviteLink") /\ len(outcome.code) > 32

InvitationKeyOccupied ==
    IF Ran("InviteMember")
    THEN WasMember(outcome.target)
    ELSE <<outcome.group_id, outcome.code>> \in DOMAIN prev.links

C8_InviteAuthority ==
    (RanInvitation /\ WasGroup) =>
        /\ outcome.err = "Ok" => MayInvite
        /\ ~MayInvite =>
              /\ Untouched
              /\ outcome.err = IF ~WasMember(outcome.caller) THEN "NotFound"
                               ELSE IF InviteCodeOverSeedLength THEN "MaxSeedLengthExceeded"
                               ELSE IF InvitationKeyOccupied THEN "AlreadyExists"
                               ELSE "InsufficientPermissions"

C8_Witness ==
    /\ Ran("CreateInviteLink")
    /\ outcome.err = "InsufficientPermissions"
    /\ PrevMember(outcome.caller).role = "Member"
    /\ PrevGroup.allow_member_invites
    /\ outcome.code = InviteCodeA
    /\ links = prev.links

(* C10, as claimed: SetGroupCode succeeds only when the caller equals the  *)
(* group's stored owner; a caller that holds an Owner-, Admin- or          *)
(* Moderator-role membership but is not the stored owner is rejected with  *)
(* NotGroupOwner, public_code and the CodeLookups unchanged.               *)
RoleHolderNotOwner ==
    /\ WasGroup
    /\ outcome.caller # PrevGroup.owner
    /\ WasMember(outcome.caller)
    /\ PrevMember(outcome.caller).role \in {"Owner", "Admin", "Moderator"}

C10_RoleHolderGetsNotGroupOwner ==
    Ran("SetGroupCode") =>
        /\ (WasGroup /\ outcome.err = "Ok") => outcome.caller = PrevGroup.owner
        /\ RoleHolderNotOwner => (outcome.err = "NotGroupOwner" /\ Untouched)

(* C10, amended: SetGroupCode succeeds only when the caller equals the     *)
(* group's stored owner; any other caller, whatever role its membership    *)
(* has, is rejected, public_code and the CodeLookups unchanged: with the   *)
(* abort of the address derivation when the lowercased code is longer than *)
(* a seed may be, with AlreadyExists when it has a CodeLookup, with        *)
(* NotGroupOwner otherwise.                                                *)
PublicCodeOverSeedLength == Ran("SetGroupCode") /\ len(ToLowercase(outcome.code)) > 32

C10_OnlyStoredOwnerSetsCode ==
    (Ran("SetGroupCode") /\ WasGroup) =>
        /\ outcome.err = "Ok" => outcome.caller = PrevGroup.owner
        /\ outcome.caller # PrevGroup.owner =>
              /\ Untouched
              /\ outcome.err = IF PublicCodeOverSeedLength THEN "MaxSeedLengthExceeded"
                               ELSE IF ToLowercase(outcome.code) \in DOMAIN prev.lookups
                               THEN "AlreadyExists"
                               ELSE "NotGroupOwner"

C10_Witness ==
    /\ Ran("SetGroupCode")
    /\ outcome.err = "NotGroupOwner"
    /\ RoleHolderNotOwner
    /\ PrevMember(outcome.caller).role = "Owner"
    /\ outcome.code = CodeAbc
    /\ lookups = prev.lookups
    /\ groups = prev.groups
(***************************************************************************)
(* C11: once SetGroupCode(G, c) has succeeded, resolving c in any letter   *)
(* case returns G: the successful call leaves the lookup of the lowercased *)
(* code pointing at G, no later transaction changes or removes a lookup,   *)
(* and a resolution of a code whose lowercase form has a lookup succeeds   *)
(* with the group of that lookup.  A SetGroupCode of another existing      *)
(* group with a code whose lowercase form is already claimed fails         *)
(* AlreadyExists and changes nothing.                                      *)
(***************************************************************************)
ClaimedBefore(public_code) == ToLowercase(public_code) \in DOMAIN prev.lookups

C11_CodeResolvesToItsGroup ==
    /\ Succeeded("SetGroupCode") =>
            /\ ToLowercase(outcome.code) \in DOMAIN lookups
            /\ lookups[ToLowercase(outcome.code)].group_id = outcome.group_id
    /\ \A k \in DOMAIN prev.lookups : k \in DOMAIN lookups /\ lookups[k] = prev.lookups[k]
    /\ (Ran("LookupGroupByCode") /\ ClaimedBefore(outcome.code)) =>
            /\ outcome.err = "Ok"
            /\ outcome.group_id = prev.lookups[ToLowercase(outcome.code)].group_id
            /\ Untouched
    /\ (Ran("SetGroupCode") /\ WasGroup /\ ClaimedBefore(outcome.code)
            /\ prev.lookups[ToLowercase(outcome.code)].group_id # outcome.group_id) =>
            /\ outcome.err = "AlreadyExists"
            /\ Untouched

(* "ABC" resolves to group 1, which set "abc", while group 2 exists. *)
C11_Witness ==
    /\ Succeeded("LookupGroupByCode")
    /\ outcome.code = CodeAbcUpper
    /\ outcome.group_id = 1
    /\ Exists(groups, 1) /\ groups[1].public_code = CodeAbc
    /\ Exists(groups, 2)

(***************************************************************************)
(* C12: in every reachable state a group's public_code and the code        *)
(* lookups agree in both directions: every group G with a non-empty        *)
(* public_code c has a lookup for c that resolves to G, and every lookup   *)
(* (c -> G) has G.public_code = c.                                         *)
(***************************************************************************)
CodeHasLookup ==
    \A g \in DOMAIN groups :
        groups[g].public_code # EmptyString =>
            /\ groups[g].public_code \in DOMAIN lookups
            /\ lookups[groups[g].public_code].group_id = g

C12_CodeAndLookupAgree ==
    /\ CodeHasLookup
    /\ \A c \in DOMAIN lookups :
            /\ lookups[c].group_id \in DOMAIN groups
            /\ groups[lookups[c].group_id].public_code = c

LookupsOf(g) == {c \in DOMAIN lookups : lookups[c].group_id = g}

(***************************************************************************)
(* C12, as the program keeps it: every group with a non-empty public_code  *)
(* c has a lookup for c that resolves to it; every lookup (c -> G) stores  *)
(* c, resolves to an existing group G whose public_code is non-empty, and  *)
(* G.public_code = c when that lookup is the only one that resolves to G   *)
(* (a group that set its code again keeps the lookups of its former        *)
(* codes).                                                                 *)
(***************************************************************************)
C12_CurrentCodeHasLookup ==
    /\ CodeHasLookup
    /\ \A c \in DOMAIN lookups :
            /\ lookups[c].public_code = c
            /\ lookups[c].group_id \in DOMAIN groups
            /\ groups[lookups[c].group_id].public_code # EmptyString
            /\ Cardinality(LookupsOf(lookups[c].group_id)) = 1 =>
                    groups[lookups[c].group_id].public_code = c

(* Group 1 set "abc" and then "x-9": both lookups resolve to it. *)
C12_Witness ==
    /\ Succeeded("SetGroupCode")
    /\ outcome.group_id = 1
    /\ groups[1].public_code = CodeX9
    /\ LookupsOf(1) = {CodeAbc, CodeX9}

(***************************************************************************)
(* C13: RevokeInviteLink on an existing link is authorized whenever the    *)
(* caller is the identity stored as the link's creator or holds an Owner,  *)
(* Admin or Moderator membership in the group, and is rejected with        *)
(* InsufficientPermissions, the link unchanged, for a caller who is        *)
(* neither; the creator can revoke whatever their current role or standing *)
(* in the group.                                                           *)
(***************************************************************************)
LinkKey == <<outcome.group_id, outcome.code>>

RevokedExistingLink == Ran("RevokeInviteLink") /\ WasGroup /\ LinkKey \in DOMAIN prev.links

IsCreator == prev.links[LinkKey].created_by = outcome.caller

HoldsModeratorRole ==
    WasMember(outcome.caller)
        /\ PrevMember(outcome.caller).role \in {"Owner", "Admin", "Moderator"}

OnlyLinkRevoked ==
    /\ groups = prev.groups /\ members = prev.members /\ lookups = prev.lookups
    /\ DOMAIN links = DOMAIN prev.links
    /\ links[LinkKey] = [prev.links[LinkKey] EXCEPT !.is_active = FALSE]
    /\ \A k \in (DOMAIN links) \ {LinkKey} : links[k] = prev.links[k]

C13_CreatorRevokesWhateverStanding ==
    RevokedExistingLink =>
        IF IsCreator \/ HoldsModeratorRole
        THEN outcome.err = "Ok" /\ OnlyLinkRevoked
        ELSE outcome.err = "InsufficientPermissions" /\ Untouched

(***************************************************************************)
(* C13, as the program decides it: RevokeInviteLink on an existing link    *)
(* succeeds exactly when the caller holds a live membership in the group   *)
(* and is the stored creator of the link or has role Owner, Admin or       *)
(* Moderator.  A caller without a live membership, the creator after       *)
(* leaving included, is rejected NotFound; a member who is neither creator *)
(* nor Owner, Admin or Moderator is rejected InsufficientPermissions; a    *)
(* rejected call changes nothing.                                          *)
(***************************************************************************)
C13_RevokeAuthority ==
    RevokedExistingLink =>
        IF ~WasMember(outcome.caller)
        THEN outcome.err = "NotFound" /\ Untouched
        ELSE IF IsCreator \/ HoldsModeratorRole
        THEN outcome.err = "Ok" /\ OnlyLinkRevoked
        ELSE outcome.err = "InsufficientPermissions" /\ Untouched

(* The creator of a link left the group and then tried to revoke the link. *)
C13_Witness ==
    /\ RevokedExistingLink
    /\ IsCreator
    /\ ~WasMember(outcome.caller)
    /\ outcome.err = "NotFound"
    /\ links[LinkKey].is_active

(***************************************************************************)
(* C14: revocation is terminal.  No transaction removes a link or turns    *)
(* is_active from false to true: a second RevokeInviteLink by a caller     *)
(* allowed to revoke succeeds and leaves is_active false, and a            *)
(* CreateInviteLink with the (group, code) of an existing link fails, with *)
(* AlreadyExists when the caller is a member of the group, and changes     *)
(* nothing.                                                                *)
(***************************************************************************)
C14_RevocationIsTerminal ==
    /\ \A k \in DOMAIN prev.links :
            /\ k \in DOMAIN links
            /\ ~prev.links[k].is_active => ~links[k].is_active
    /\ (RevokedExistingLink /\ ~prev.links[LinkKey].is_active
            /\ WasMember(outcome.caller) /\ (IsCreator \/ HoldsModeratorRole)) =>
            /\ outcome.err = "Ok"
            /\ ~links[LinkKey].is_active
    /\ (Ran("CreateInviteLink") /\ LinkKey \in DOMAIN prev.links) =>
            /\ outcome.err # "Ok"
            /\ WasMember(outcome.caller) => outcome.err = "AlreadyExists"
            /\ Untouched

(* A revoked link was revoked a second time. *)
C14_Witness ==
    /\ Succeeded("RevokeInviteLink")
    /\ LinkKey \in DOMAIN prev.links
    /\ ~prev.links[LinkKey].is_active
    /\ ~links[LinkKey].is_active

(***************************************************************************)
(* C15: field validation runs before any storage access: a CreateGroup     *)
(* whose name is not 1-100 or whose description is not 0-500 characters,   *)
(* a SetGroupCode whose code is not 3-20 lowercase letters, digits or      *)
(* hyphens, and a CreateInviteLink whose code is not 8-16 letters or       *)
(* digits fails with the validation error of that field, whatever the      *)
(* accounts and the caller, and changes nothing.                           *)
(***************************************************************************)
ValidatedCall == Ran("CreateGroup") \/ Ran("SetGroupCode") \/ Ran("CreateInviteLink")

(* The validation error the input of the call deserves, Ok when valid. *)
FieldError ==
    IF Ran("CreateGroup")
    THEN IF Len(outcome.args.name) < 1 \/ Len(outcome.args.name) > 100
         THEN "InvalidGroupNameLength"
         ELSE IF Len(outcome.args.description) > 500 THEN "InvalidGroupDescriptionLength"
         ELSE "Ok"
    ELSE IF Ran("SetGroupCode")
    THEN IF Len(outcome.code) < 3 \/ Len(outcome.code) > 20 THEN "InvalidPublicCodeLength"
         ELSE IF \E i \in DOMAIN outcome.code :
                    outcome.code[i] \notin Range(LowerLetters) \cup Range(Digits) \cup {"-"}
         THEN "InvalidPublicCodeCharacters"
         ELSE "Ok"
    ELSE IF Len(outcome.code) < 8 \/ Len(outcome.code) > 16 THEN "InvalidInviteCodeLength"
         ELSE IF \E i \in DOMAIN outcome.code :
                    outcome.code[i] \notin
                        Range(LowerLetters) \cup Range(UpperLetters) \cup Range(Digits)
         THEN "InvalidInviteCodeCharacters"
         ELSE "Ok"

(* The validation error the handler finds: as FieldError, with every       *)
(* length in bytes.                                                        *)
FieldErrorInBytes ==
    IF Ran("CreateGroup")
    THEN IF Len(outcome.args.name) = 0 \/ len(outcome.args.name) > 100
         THEN "InvalidGroupNameLength"
         ELSE IF len(outcome.args.description) > 500 THEN "InvalidGroupDescriptionLength"
         ELSE "Ok"
    ELSE IF Ran("SetGroupCode")
    THEN IF len(outcome.code) < 3 \/ len(outcome.code) > 20 THEN "InvalidPublicCodeLength"
         ELSE IF \E i \in DOMAIN outcome.code :
                    outcome.code[i] \notin Range(LowerLetters) \cup Range(Digits) \cup {"-"}
         THEN "InvalidPublicCodeCharacters"
         ELSE "Ok"
    ELSE IF len(outcome.code) < 8 \/ len(outcome.code) > 16 THEN "InvalidInviteCodeLength"
         ELSE IF \E i \in DOMAIN outcome.code :
                    outcome.code[i] \notin
                        Range(LowerLetters) \cup Range(UpperLetters) \cup Range(Digits)
         THEN "InvalidInviteCodeCharacters"
         ELSE "Ok"

C15_ValidationBeforeStorage ==
    (ValidatedCall /\ FieldError # "Ok") => (outcome.err = FieldError /\ Untouched)

(* The error of the account validation that runs before the handler, and   *)
(* of create_invite_link's permission check; Ok when the call passes them. *)
EarlierError ==
    IF Ran("CreateGroup")
    THEN IF WasGroup \/ WasMember(outcome.caller) THEN "AlreadyExists" ELSE "Ok"
    ELSE IF Ran("SetGroupCode")
    THEN IF ~WasGroup THEN "NotFound"
         ELSE IF PublicCodeOverSeedLength THEN "MaxSeedLengthExceeded"
         ELSE IF ClaimedBefore(outcome.code) THEN "AlreadyExists"
         ELSE IF PrevGroup.owner # outcome.caller THEN "NotGroupOwner"
         ELSE "Ok"
    ELSE IF ~WasGroup \/ ~WasMember(outcome.caller) THEN "NotFound"
         ELSE IF InviteCodeOverSeedLength THEN "MaxSeedLengthExceeded"
         ELSE IF LinkKey \in DOMAIN prev.links THEN "AlreadyExists"
         ELSE IF ~MayInvite THEN "InsufficientPermissions"
         ELSE "Ok"

(***************************************************************************)
(* C15, as the program orders its checks: such a call fails and changes    *)
(* nothing; its error is the validation error of the field, the lengths    *)
(* counted in bytes, when the call passes the checks that run earlier, and *)
(* the error of the first of them that fails otherwise: a missing group or *)
(* caller membership (NotFound), a code of more than 32 bytes in the seeds *)
(* of the account to create (the address derivation aborts), an occupied   *)
(* key of the account to create (AlreadyExists), a caller who is not the   *)
(* stored owner (SetGroupCode, NotGroupOwner) or who may not invite        *)
(* (CreateInviteLink, InsufficientPermissions).                            *)
(***************************************************************************)
C15_ValidationAfterAccounts ==
    (ValidatedCall /\ FieldErrorInBytes # "Ok") =>
        /\ Untouched
        /\ outcome.err = IF EarlierError # "Ok" THEN EarlierError ELSE FieldErrorInBytes

(* An invite code of 3 characters, from a member who may not invite. *)
C15_Witness ==
    /\ Ran("CreateInviteLink")
    /\ outcome.code = InviteCodeShort
    /\ WasMember(outcome.caller) /\ ~MayInvite
    /\ outcome.err = "InsufficientPermissions"

(***************************************************************************)
(* C16: every instruction is all-or-nothing.  A rejected CreateGroup,      *)
(* SetGroupCode, Join, Invite, Leave, Kick, UpdateRole, CreateInviteLink   *)
(* or RevokeInviteLink leaves every group, membership, invite link and     *)
(* code lookup as it was; and in every transaction the member_count of a   *)
(* group changes by exactly the number of its memberships created minus    *)
(* the number destroyed (a new group starts with the count of its          *)
(* memberships).                                                           *)
(***************************************************************************)
CountBefore(g) == IF g \in DOMAIN prev.groups THEN prev.groups[g].member_count ELSE 0

C16_AllOrNothing ==
    /\ (~Idle /\ outcome.err # "Ok") => Untouched
    /\ \A g \in GroupIds :
            /\ g \in DOMAIN prev.groups => g \in DOMAIN groups
            /\ g \notin DOMAIN groups => LiveMembers(members, g) = {}
            /\ g \in DOMAIN groups =>
                    groups[g].member_count - CountBefore(g)
                        = Cardinality(LiveMembers(members, g))
                            - Cardinality(LiveMembers(prev.members, g))

(***************************************************************************)
(* C17: of two transactions that create an account at the same key, each   *)
(* of which would succeed alone, the one that runs second fails            *)
(* AlreadyExists in either order: two CreateGroup of one id, two           *)
(* SetGroupCode of codes with one lowercase form, a Join and/or Invite of  *)
(* one (group, identity).  The rejected one changes nothing, so the result *)
(* is that of the successful one alone.  The state part: a creation at a   *)
(* key that was occupied fails and changes nothing, with AlreadyExists     *)
(* when the accounts loaded before it exist.                               *)
(***************************************************************************)
CreatedAtOccupiedKey ==
    \/ Ran("CreateGroup") /\ WasGroup
    \/ Ran("SetGroupCode") /\ WasGroup /\ ClaimedBefore(outcome.code)
    \/ Ran("JoinGroup") /\ WasMember(outcome.caller)
    \/ Ran("InviteMember") /\ WasMember(outcome.caller) /\ WasMember(outcome.target)

SecondCreateGroupFails ==
    Succeeded("CreateGroup")' =>
        \A c \in AllSampleGroups :
            (c.group_id = outcome'.group_id /\ CreateGroupErr(c.caller, c.group_id, c) = "Ok")
                => CreateGroupErr(c.caller, c.group_id, c)' = "AlreadyExists"

SecondSetGroupCodeFails ==
    Succeeded("SetGroupCode")' =>
        \A u \in Users, g \in GroupIds, c \in AllPublicCodes :
            (ToLowercase(c) = ToLowercase(outcome'.code) /\ SetGroupCodeErr(u, g, c) = "Ok")
                => SetGroupCodeErr(u, g, c)' = "AlreadyExists"

SecondAdmissionFails ==
    (Succeeded("JoinGroup")' \/ Succeeded("InviteMember")') =>
        \A g \in GroupIds, t \in Users :
            (g = outcome'.group_id /\ t = outcome'.target) =>
                /\ JoinGroupErr(t, g) = "Ok" => JoinGroupErr(t, g)' = "AlreadyExists"
                /\ \A u \in Users :
                        InviteMemberErr(u, g, t) = "Ok"
                            => InviteMemberErr(u, g, t)' = "AlreadyExists"

C17_SecondCreationFails ==
    /\ [](CreatedAtOccupiedKey => (outcome.err = "AlreadyExists" /\ Untouched))
    /\ [][SecondCreateGroupFails /\ SecondSetGroupCodeFails /\ SecondAdmissionFails]_vars

(* A Join by an identity that an Invite had admitted before. *)
C17_Witness ==
    /\ Rejected("JoinGroup")
    /\ outcome.err = "AlreadyExists"
    /\ WasMember(outcome.caller)
    /\ PrevMember(outcome.caller).invited_by # outcome.caller
    /\ Untouched

(***************************************************************************)
(* C18: when a group with max_members # 0 has exactly one free slot and    *)
(* Join and Invite transactions for distinct identities race, each of      *)
(* which would succeed alone, the one that runs first is admitted and      *)
(* every other one then fails GroupFull (and, changing nothing, leaves the *)
(* group full for the next); in every reachable state such a group has     *)
(* member_count <= max_members and no more live memberships than           *)
(* max_members.                                                            *)
(***************************************************************************)
WithinCapacity ==
    \A g \in DOMAIN groups :
        groups[g].max_members # 0 =>
            /\ groups[g].member_count <= groups[g].max_members
            /\ Cardinality(LiveMembers(members, g)) <= groups[g].max_members

OneFreeSlot(g) ==
    /\ g \in DOMAIN groups
    /\ groups[g].max_members # 0
    /\ groups[g].member_count + 1 = groups[g].max_members

RivalsGetGroupFull ==
    (Succeeded("JoinGroup")' \/ Succeeded("InviteMember")') =>
        \A g \in GroupIds, t \in Users :
            (g = outcome'.group_id /\ OneFreeSlot(g) /\ t # outcome'.target) =>
                /\ JoinGroupErr(t, g) = "Ok" => JoinGroupErr(t, g)' = "GroupFull"
                /\ \A u \in Users :
                        InviteMemberErr(u, g, t) = "Ok"
                            => InviteMemberErr(u, g, t)' = "GroupFull"

C18_OneSlotAdmitsOne ==
    /\ []WithinCapacity
    /\ []((Rejected("JoinGroup") \/ Rejected("InviteMember")) => Untouched)
    /\ [][RivalsGetGroupFull]_vars

(* An Invite of user 3 into the full group 1, whose last slot went to the  *)
(* Join of user 2.                                                         *)
C18_Witness ==
    /\ Ran("InviteMember")
    /\ outcome.err = "GroupFull"
    /\ outcome.group_id = 1 /\ outcome.target = 3
    /\ PrevGroup.member_count = PrevGroup.max_members
    /\ WasMember(2) /\ PrevMember(2).invited_by = 2
    /\ LiveMembers(members, 1) = {1, 2}

(***************************************************************************)
(* C19: for a group with max_members = 0, a Join by an identity without a  *)
(* live membership in it succeeds at every value of the 16-bit             *)
(* member_count and adds exactly one to it; at no value does such a Join   *)
(* fail or the counter wrap.                                               *)
(***************************************************************************)
JoinedUnlimitedGroup ==
    /\ Ran("JoinGroup")
    /\ WasGroup
    /\ PrevGroup.max_members = 0
    /\ ~WasMember(outcome.caller)

C19_UnlimitedJoinNeverFails ==
    JoinedUnlimitedGroup =>
        /\ outcome.err = "Ok"
        /\ groups[outcome.group_id].member_count = PrevGroup.member_count + 1
        /\ groups[outcome.group_id].member_count <= U16Max

(***************************************************************************)
(* C20: a successful CreateGroup(id, ...) by caller C writes, in one       *)
(* transaction, a new group account with owner C, member_count 1, an empty *)
(* public_code and the max_members and flags of the call, and a new        *)
(* membership (id, C) with role Owner, the full permission mask 0xFFFF and *)
(* invited_by C; no other account is created, closed or changed.           *)
(***************************************************************************)
C20_CreateGroupWrites ==
    Succeeded("CreateGroup") =>
        LET g == outcome.group_id
            C == outcome.caller
            a == outcome.args
        IN  /\ g \notin DOMAIN prev.groups
            /\ DOMAIN groups = (DOMAIN prev.groups) \cup {g}
            /\ \A h \in DOMAIN prev.groups : groups[h] = prev.groups[h]
            /\ groups[g].owner = C
            /\ groups[g].member_count = 1
            /\ groups[g].public_code = <<>>
            /\ groups[g].name = a.name
            /\ groups[g].description = a.description
            /\ groups[g].max_members = a.max_members
            /\ groups[g].is_public = a.is_public
            /\ groups[g].invite_only = a.invite_only
            /\ groups[g].allow_member_invites = a.allow_member_invites
            /\ <<g, C>> \notin DOMAIN prev.members
            /\ DOMAIN members = (DOMAIN prev.members) \cup {<<g, C>>}
            /\ \A k \in DOMAIN prev.members : members[k] = prev.members[k]
            /\ members[<<g, C>>].role = "Owner"
            /\ members[<<g, C>>].permissions = 65535
            /\ members[<<g, C>>].invited_by = C
            /\ lookups = prev.lookups
            /\ links = prev.links

(* User 3 created group 2 (capped at 1, invite-only) while group 1 had two *)
(* members.                                                                *)
C20_Witness ==
    /\ Succeeded("CreateGroup")
    /\ outcome.group_id = 2 /\ outcome.caller = 3
    /\ outcome.args.max_members = 1 /\ outcome.args.invite_only
    /\ Exists(prev.groups, 1) /\ prev.groups[1].member_count = 2
    /\ Exists(members, <<2, 3>>)

(***************************************************************************)
(* C21: at most one live user account exists per lowercased username.  A   *)
(* register_username of a name whose lowercase form is held by a live      *)
(* account fails (AlreadyExists) and leaves that account unchanged; every  *)
(* account is stored at, and records, its lowercased username; and once    *)
(* close_account by the owner has succeeded, a register_username of that   *)
(* username by any identity, the former owner or another, succeeds.        *)
(***************************************************************************)
UsernameHeldBefore == ToLowercase(outcome.code) \in DOMAIN prev.users

WellFormedUsername(n) ==
    /\ Len(n) >= 3 /\ Len(n) <= 20
    /\ \A i \in DOMAIN n :
            n[i] \in Range(LowerLetters) \cup Range(UpperLetters) \cup Range(Digits) \cup {"_"}

C21_OneAccountPerUsername ==
    /\ \A k \in DOMAIN users : users[k].username = k /\ ToLowercase(k) = k
    /\ (Ran("RegisterUsername") /\ UsernameHeldBefore) =>
            (outcome.err = "AlreadyExists" /\ Untouched)
    /\ (Ran("RegisterUsername") /\ ~UsernameHeldBefore /\ WellFormedUsername(outcome.code)) =>
            /\ outcome.err = "Ok"
            /\ users[ToLowercase(outcome.code)].owner = outcome.caller
    /\ Succeeded("CloseAccount") =>
            /\ UsernameHeldBefore
            /\ prev.users[ToLowercase(outcome.code)].owner = outcome.caller
            /\ ToLowercase(outcome.code) \notin DOMAIN users
            /\ \A u \in Users, n \in SampleUsernames :
                    (ToLowercase(n) = ToLowercase(outcome.code) /\ WellFormedUsername(n))
                        => RegisterUsernameErr(u, n) = "Ok"

(* User 1 closed "alice"; user 2 may now register "AlicE". *)
C21_Witness ==
    /\ Succeeded("CloseAccount")
    /\ outcome.caller = 1
    /\ outcome.code = NameAlice
    /\ RegisterUsernameErr(2, NameAliceCaps) = "Ok"
    /\ Exists(users, NameBob)

(***************************************************************************)
(* C22: transfer_username, update_encryption_key and close_account on a    *)
(* live user account succeed only when the caller is the current owner of  *)
(* the account, and otherwise fail NotOwner and change nothing.  After a   *)
(* successful transfer to another identity the previous owner can no       *)
(* longer transfer, update the key of or close the account, and the new    *)
(* owner can.                                                              *)
(***************************************************************************)
RanOwnerOnly == Ran("TransferUsername") \/ Ran("UpdateEncryptionKey") \/ Ran("CloseAccount")

UserKey == IF Ran("CloseAccount") THEN ToLowercase(outcome.code) ELSE outcome.code

WasOwner == prev.users[UserKey].owner = outcome.caller

OtherUsersUntouched ==
    /\ (DOMAIN users) \ {UserKey} = (DOMAIN prev.users) \ {UserKey}
    /\ \A k \in (DOMAIN users) \ {UserKey} : users[k] = prev.users[k]

C22_OnlyOwnerManagesAccount ==
    /\ (RanOwnerOnly /\ UserKey \in DOMAIN prev.users) =>
            /\ outcome.err = IF WasOwner THEN "Ok" ELSE "NotOwner"
            /\ ~WasOwner => Untouched
            /\ OtherUsersUntouched
    /\ Succeeded("TransferUsername") =>
            /\ users[UserKey] = [prev.users[UserKey] EXCEPT !.owner = outcome.target]
            /\ TransferUsernameErr(outcome.target, UserKey) = "Ok"
            /\ UpdateEncryptionKeyErr(outcome.target, UserKey) = "Ok"
            /\ CloseAccountErr(outcome.target, UserKey) = "Ok"
            /\ outcome.target # outcome.caller =>
                    /\ TransferUsernameErr(outcome.caller, UserKey) = "NotOwner"
                    /\ UpdateEncryptionKeyErr(outcome.caller, UserKey) = "NotOwner"
                    /\ CloseAccountErr(outcome.caller, UserKey) = "NotOwner"
    /\ Succeeded("UpdateEncryptionKey") =>
            users[UserKey] = [prev.users[UserKey] EXCEPT !.encryption_key = outcome.target]
    /\ Succeeded("CloseAccount") => UserKey \notin DOMAIN users

(* User 1 transferred "alice" to user 2 and can no longer close it. *)
C22_Witness ==
    /\ Succeeded("TransferUsername")
    /\ outcome.caller = 1 /\ outcome.target = 2
    /\ UserKey = NameAlice
    /\ users[NameAlice].owner = 2
    /\ CloseAccountErr(1, NameAliceCaps) = "NotOwner"
    /\ CloseAccountErr(2, NameAliceCaps) = "Ok"

(***************************************************************************)
(* C23: a Kick whose kicker and target are the same identity fails         *)
(* whatever the role of that identity (Member, Moderator, Admin or Owner)  *)
(* and leaves its membership and the member_count of the group unchanged.  *)
(***************************************************************************)
SelfKick == Ran("KickMember") /\ outcome.caller = outcome.target

C23_SelfKickFails ==
    SelfKick =>
        /\ outcome.err # "Ok"
        /\ Untouched
        /\ (WasGroup /\ WasMember(outcome.caller)) =>
                /\ members[<<outcome.group_id, outcome.caller>>] = PrevMember(outcome.caller)
                /\ groups[outcome.group_id].member_count = PrevGroup.member_count
                /\ outcome.err = IF PrevMember(outcome.caller).role = "Owner"
                                 THEN "CannotKickOwner" ELSE "InsufficientPermissions"

(* An Admin tried to kick itself. *)
C23_Witness ==
    /\ SelfKick
    /\ WasMember(outcome.caller)
    /\ PrevMember(outcome.caller).role = "Admin"
    /\ outcome.err = "InsufficientPermissions"
    /\ Exists(members, <<outcome.group_id, outcome.caller>>)

(***************************************************************************)
(* C24: setting a public code again does not reclaim the previous one.     *)
(* When the owner of G, whose code was c1, succeeds at SetGroupCode(G, c2) *)
(* with c2 # c1, G.public_code is c2 and both c1 and c2 resolve to G; and  *)
(* in every state every code that has a lookup keeps it unchanged,         *)
(* resolves to the group of that lookup, and cannot be set by any caller   *)
(* for any group, that group included.                                     *)
(***************************************************************************)
ResolvesTo(c, g) == LookupGroupByCodeErr(c) = "Ok" /\ ResolvedGroup(c) = g

NobodyCanSet(c) ==
    \A u \in Users, h \in GroupIds :
        /\ SetGroupCodeErr(u, h, c) # "Ok"
        /\ Exists(groups, h) => SetGroupCodeErr(u, h, c) = "AlreadyExists"

C24_FormerCodeStaysClaimed ==
    /\ (Succeeded("SetGroupCode") /\ PrevGroup.public_code # EmptyString) =>
            /\ PrevGroup.public_code # outcome.code
            /\ groups[outcome.group_id].public_code = outcome.code
            /\ ResolvesTo(PrevGroup.public_code, outcome.group_id)
            /\ ResolvesTo(outcome.code, outcome.group_id)
            /\ NobodyCanSet(PrevGroup.public_code)
    /\ \A c \in DOMAIN prev.lookups : c \in DOMAIN lookups /\ lookups[c] = prev.lookups[c]
    /\ \A c \in DOMAIN lookups : ResolvesTo(c, lookups[c].group_id) /\ NobodyCanSet(c)

(* Group 1 replaced "abc" by "x-9": "ABC" still resolves to group 1 and    *)
(* the owner of group 2 cannot set "abc".                                  *)
C24_Witness ==
    /\ Succeeded("SetGroupCode")
    /\ outcome.group_id = 1
    /\ PrevGroup.public_code = CodeAbc
    /\ outcome.code = CodeX9
    /\ ResolvesTo(CodeAbcUpper, 1)
    /\ Exists(groups, 2)
    /\ SetGroupCodeErr(groups[2].owner, 2, CodeAbc) = "AlreadyExists"

(***************************************************************************)
(* C25: in every reachable state the permission bitmask of every           *)
(* membership is the fixed mask of its role (Member: SEND; Moderator:      *)
(* SEND, INVITE, KICK; Admin: SEND, INVITE, KICK, MANAGE_ROLES; Owner: all *)
(* bits), however the membership was written; so no Member-role            *)
(* membership holds the INVITE bit, and an Invite or CreateInviteLink by a *)
(* Member-role caller fails even in a group whose allow_member_invites is  *)
(* true.                                                                   *)
(***************************************************************************)
CallerWasPlainMember ==
    WasGroup /\ WasMember(outcome.caller) /\ PrevMember(outcome.caller).role = "Member"

C25_MaskFollowsRole ==
    /\ \A k \in DOMAIN members :
            /\ members[k].permissions = FixedMask(members[k].role)
            /\ members[k].role = "Member" => (members[k].permissions \div 2) % 2 = 0
    /\ (RanInvitation /\ CallerWasPlainMember) => (outcome.err # "Ok" /\ Untouched)

(* A Member who joined a group that allows member invites tried to create  *)
(* an invite link with a valid, unused code.                               *)
C25_Witness ==
    /\ Ran("CreateInviteLink")
    /\ CallerWasPlainMember
    /\ PrevMember(outcome.caller).invited_by = outcome.caller
    /\ PrevGroup.allow_member_invites
    /\ outcome.code = InviteCodeA
    /\ LinkKey \notin DOMAIN prev.links
    /\ outcome.err = "InsufficientPermissions"

(***************************************************************************)
(* C26: the stored owner of a group never changes after CreateGroup, the   *)
(* group account is never deleted, and in every reachable state the stored *)
(* owner holds a live membership in the group with role Owner; hence       *)
(* member_count >= 1 always, and a successful Leave or Kick decrements a   *)
(* counter that is not zero.                                               *)
(***************************************************************************)
C26_OwnerStays ==
    /\ \A g \in DOMAIN prev.groups :
            /\ g \in DOMAIN groups
            /\ groups[g].owner = prev.groups[g].owner
    /\ \A g \in DOMAIN groups :
            /\ <<g, groups[g].owner>> \in DOMAIN members
            /\ members[<<g, groups[g].owner>>].role = "Owner"
            /\ groups[g].member_count >= 1
    /\ (Succeeded("LeaveGroup") \/ Succeeded("KickMember")) =>
            /\ PrevGroup.member_count > 0
            /\ groups[outcome.group_id].member_count = PrevGroup.member_count - 1

(***************************************************************************)
(* C27: a Join by an identity without a live membership succeeds whenever  *)
(* the capacity check passes, whatever the invite_only, require_approval   *)
(* and is_public flags of the group and whatever happened to that identity *)
(* before (kicked, or left): it creates a Member-role membership invited   *)
(* by the joiner and adds one to member_count.                             *)
(***************************************************************************)
CapacityCheckPassed ==
    PrevGroup.max_members = 0 \/ PrevGroup.member_count < PrevGroup.max_members

JoinAdmitted ==
    /\ outcome.err = "Ok"
    /\ members[<<outcome.group_id, outcome.caller>>] =
            [role |-> "Member", permissions |-> 1, invited_by |-> outcome.caller]
    /\ groups[outcome.group_id] = [PrevGroup EXCEPT !.member_count = PrevGroup.member_count + 1]
    /\ OthersUntouched(<<outcome.group_id, outcome.caller>>)

C27_JoinAdmitsWhenCapacityPasses ==
    (Ran("JoinGroup") /\ WasGroup /\ ~WasMember(outcome.caller) /\ CapacityCheckPassed)
        => JoinAdmitted

(* What holds of C27: the same while member_count is below 65535; and      *)
(* right after a Kick or a Leave has removed a membership, a Join by the   *)
(* removed identity would succeed.                                         *)
Removed == IF Ran("KickMember") THEN outcome.target ELSE outcome.caller

JoinIgnoresFlagsAndHistory ==
    /\ (Ran("JoinGroup") /\ WasGroup /\ ~WasMember(outcome.caller) /\ CapacityCheckPassed
            /\ PrevGroup.member_count < 65535) => JoinAdmitted
    /\ (Succeeded("KickMember") \/ Succeeded("LeaveGroup")) =>
            /\ <<outcome.group_id, Removed>> \notin DOMAIN members
            /\ JoinGroupErr(Removed, outcome.group_id) = "Ok"

(***************************************************************************)
(* C28: the rent of a closed membership account goes to the caller of the  *)
(* instruction that closes it, not to whoever paid it: a Kick credits the  *)
(* kicker, also when the kicked member paid through Join, and a Leave      *)
(* credits the leaving member, also when an inviter paid through Invite;   *)
(* the balance of no other party changes.  (A membership records who paid  *)
(* for it: Join is paid by the joiner and Invite by the inviter, which is  *)
(* what invited_by holds in both.)                                         *)
(***************************************************************************)
OnlyCredited(u) == outcome.lamports = [v \in Users |-> IF v = u THEN 1 ELSE 0]

OnlyDebited(u) == outcome.lamports = [v \in Users |-> IF v = u THEN 0 - 1 ELSE 0]

C28_RentGoesToCaller ==
    /\ (Succeeded("KickMember") \/ Succeeded("LeaveGroup")) => OnlyCredited(outcome.caller)
    /\ (Succeeded("JoinGroup") \/ Succeeded("InviteMember")) =>
            /\ OnlyDebited(outcome.caller)
            /\ members[<<outcome.group_id, outcome.target>>].invited_by = outcome.caller
    /\ (Rejected("KickMember") \/ Rejected("LeaveGroup")
            \/ Rejected("JoinGroup") \/ Rejected("InviteMember")) =>
            outcome.lamports = [v \in Users |-> 0]

(* A member who had joined, and so paid for its membership, was kicked:    *)
(* the kicker is credited.                                                 *)
C28_Witness ==
    /\ Succeeded("KickMember")
    /\ PrevMember(outcome.target).invited_by = outcome.target
    /\ outcome.caller # outcome.target
    /\ outcome.lamports[outcome.caller] = 1
    /\ outcome.lamports[outcome.target] = 0

====
